---- MODULE Spec2Model ----
(***************************************************************************)
(* A model of the blueberry-trio puzzle engine (src/src/core/              *)
(* blueberryCore.ts): the row pattern catalog, generateBoard, computeClues,*)
(* solveCount, solveOneFromClueGrid and makePuzzle.                        *)
(*                                                                         *)
(* The three backtracking searches are modelled as one stepping engine:    *)
(* a step is one entry of backtrack(r), one iteration of its for-loop, or  *)
(* the resumption of a frame after its recursive call returned.  A row     *)
(* array is held by reference, as in the source: a pattern is its 1-based  *)
(* position in ROW_PATTERNS, and 0 stands for the all-zero row a fresh     *)
(* boardRows starts with.                                                  *)
(***************************************************************************)
EXTENDS Integers, Sequences, FiniteSets, TLC

\* ------------------------------------------------------------------------
\* Program constants
\* ------------------------------------------------------------------------

N == 9

MIN_DENSE_CLUES == 22

Idx == 0..(N - 1)

NEIGHBOR_DIRS ==
  << <<-1, -1>>, <<-1, 0>>, <<-1, 1>>,
     <<0, -1>>,             <<0, 1>>,
     <<1, -1>>,  <<1, 0>>,  <<1, 1>> >>

\* ------------------------------------------------------------------------
\* Bounds of the model
\* ------------------------------------------------------------------------

\* Number of "mirror" random streams a shuffle may draw (see RandomIndex).
MaxKeep == 2

\* Number of constant random streams a shuffle may draw (see RandomIndex).
MaxConst == 2

\* Largest maxSolutions the solver scenarios pass to solveCount.
MaxCap == 3

\* Number of leading rows whose clues a solver scenario may keep.
MaxClueRows == 3

\* Largest number of berries a computeClues input places on the probe cells.
MaxBerries == 2

\* Largest number of entries of a valid clue array a decoder input overwrites.
MaxEdits == 1

\* Calls of the pool progress functions one caller makes.
MaxCalls == 3

\* Taps on buttons (not on cells) in one run of the App.
MaxTaps == 4

\* ------------------------------------------------------------------------
\* Small helpers
\* ------------------------------------------------------------------------

Min(a, b) == IF a < b THEN a ELSE b

\* Option values: a ClueGrid cell is null or a number.
None == << >>

Some(v) == <<v>>

ZeroRow == [c \in Idx |-> 0]

ZeroCounts == [i \in Idx |-> 0]

\* ------------------------------------------------------------------------
\* Row patterns: all rows with exactly 3 berries
\* ------------------------------------------------------------------------

RECURSIVE PatternsFrom(_, _, _)
\* The for-loop of the catalog's backtrack(start, depth, current), from
\* position i on: push i, recurse, pop, continue with i + 1.
PatternsFrom(i, depth, current) ==
  IF depth = 3
  THEN << [c \in Idx |-> IF c \in current THEN 1 ELSE 0] >>
  ELSE IF i >= N
       THEN << >>
       ELSE PatternsFrom(i + 1, depth + 1, current \cup {i})
              \o PatternsFrom(i + 1, depth, current)

ROW_PATTERNS == PatternsFrom(0, 0, {})

NumPatterns == Len(ROW_PATTERNS)

\* The row array a boardRows entry refers to.
RowOf(p) == IF p = 0 THEN ZeroRow ELSE ROW_PATTERNS[p]

\* The 0/1 matrix of a vector of row references (clone2D, cloneBoardRows).
clone2D(rows) == [r \in Idx |-> [c \in Idx |-> RowOf(rows[r])[c]]]

\* ------------------------------------------------------------------------
\* shuffle: Fisher-Yates driven by Math.random
\* ------------------------------------------------------------------------

\* The random streams of the model.  A stream is named by a pair:
\*   <<"mirror", k>>  draws, at step i of a shuffle of n elements, the index
\*                    min(i, n - 1 - i + k): the first k elements stay, the
\*                    rest is reversed;
\*   <<"const", m>>   is Math.random() returning m / 4 at every draw;
\*   <<"front", p>>   draws j = i at every step but step p, where it draws 0:
\*                    the elements at positions 0 and p change places.
Streams ==
  {<<"mirror", k>> : k \in 0..(MaxKeep - 1)}
    \cup {<<"const", m>> : m \in 0..(Min(MaxConst, 4) - 1)}

\* j = Math.floor(Math.random() * (i + 1)) under stream s.
RandomIndex(s, i, n) ==
  IF s[1] = "mirror"
  THEN Min(i, n - 1 - i + s[2])
  ELSE IF s[1] = "front"
       THEN (IF i = s[2] THEN 0 ELSE i)
       ELSE (s[2] * (i + 1)) \div 4

RECURSIVE ShuffleSteps(_, _, _, _)
\* The iterations i = hi, hi - 1, ..., lo of the loop of shuffle, applied to
\* arr: the upper half of the range first, then the lower half.
ShuffleSteps(arr, hi, lo, s) ==
  IF hi < lo
  THEN arr
  ELSE IF hi = lo
       THEN LET j == RandomIndex(s, hi, Len(arr))
            \* arr is 1-based here: position i of the source is arr[i + 1]
            IN [arr EXCEPT ![hi + 1] = arr[j + 1], ![j + 1] = arr[hi + 1]]
       ELSE LET mid == (hi + lo) \div 2
            IN CHOOSE done \in {ShuffleSteps(upper, mid, lo, s) :
                                  upper \in {ShuffleSteps(arr, hi, mid + 1, s)}} : TRUE

shuffle(arr, s) == ShuffleSteps(arr, Len(arr) - 1, 1, s)

\* ------------------------------------------------------------------------
\* Clue computation
\* ------------------------------------------------------------------------

\* The in-grid neighbours of (r, c), as indexes into NEIGHBOR_DIRS.
InGrid(r, c) ==
  {d \in 1..8 : /\ r + NEIGHBOR_DIRS[d][1] >= 0
                /\ r + NEIGHBOR_DIRS[d][1] < N
                /\ c + NEIGHBOR_DIRS[d][2] >= 0
                /\ c + NEIGHBOR_DIRS[d][2] < N}

\* Clues that count the 4 side neighbours only.
computeClues_SidesOnly(board) ==
  [r \in Idx |-> [c \in Idx |->
     Cardinality({d \in InGrid(r, c) :
        /\ NEIGHBOR_DIRS[d][1] = 0 \/ NEIGHBOR_DIRS[d][2] = 0
        /\ board[r + NEIGHBOR_DIRS[d][1]][c + NEIGHBOR_DIRS[d][2]] = 1})]]

computeClues(board) ==
  [r \in Idx |-> [c \in Idx |->
     Cardinality({d \in InGrid(r, c) :
        board[r + NEIGHBOR_DIRS[d][1]][c + NEIGHBOR_DIRS[d][2]] = 1})]]

\* checkConstraints(board) returns normally (TRUE) or throws (FALSE).
RECURSIVE SumRow(_, _)
SumRow(row, c) == IF c >= N THEN 0 ELSE row[c] + SumRow(row, c + 1)

RECURSIVE SumCol(_, _, _)
SumCol(board, c, r) == IF r >= N THEN 0 ELSE board[r][c] + SumCol(board, c, r + 1)

SumBlock(board, br, bc) ==
  LET cell(k) == board[br * 3 + (k \div 3)][bc * 3 + (k % 3)]
  IN cell(0) + cell(1) + cell(2) + cell(3) + cell(4) + cell(5) + cell(6) + cell(7) + cell(8)

checkConstraints(board) ==
  /\ \A r \in Idx : SumRow(board[r], 0) = 3
  /\ \A c \in Idx : SumCol(board, c, 0) = 3
  /\ \A br \in 0..2 : \A bc \in 0..2 : SumBlock(board, br, bc) = 3

\* ------------------------------------------------------------------------
\* State
\* ------------------------------------------------------------------------

VARIABLES
  \* --- module state of blueberryCore.ts
  catalog,       \* the array ROW_PATTERNS: references to its rows, in order
  firstHit,      \* history: boardRows when the last solveCount call counted
                 \* its first board, or None
  \* --- the search engine (one call of generateBoard, solveCount or
  \*     solveOneFromClueGrid at a time: the code is synchronous)
  fn,            \* the function whose search is running, or "idle"
  epc,           \* position: "idle", "enter" (at the entry of backtrack(r)),
                 \* "loop" (at the head of a for-iteration), "back" (the
                 \* recursive call of the top frame has returned), "ret"
                 \* (backtrack(0) has returned: the function returns)
  pats,          \* patternsPerRow / validRows: per row, pattern references
  clueList,      \* the clues of the call, in Map insertion order
  maxSolutions,  \* solveCount's cap
  colCounts,
  blockCounts,
  boardRows,     \* per row, the pattern reference last stored (0: zero row)
  iters,         \* the for-loop position of every open backtrack frame
  solutions,     \* solveCount's counter
  ret,           \* the value last returned by backtrack / by the function
  did,           \* what the last engine step did (history of the step)
  \* --- makePuzzle
  mp,            \* position of makePuzzle, or "idle"
  tape,          \* the random streams the shuffles of this run draw
  solution,      \* const board = generateBoard()
  active,
  order,
  k,             \* position of the minimisation loop in order
  puzzle,        \* the value makePuzzle returned, or None
  \* --- the caller of the engine's exported functions
  hpc,           \* position of the caller
  sc,            \* the inputs of the caller's scenario
  out,           \* the values the calls returned, in call order
  \* --- the App (React state) and the module state of gameSave.ts
  ui,            \* the App's useState values, by name
  timer,         \* gameSave's timer: None, or Some(id of a timeout)
  pending,       \* gameSave's pending game: None, or Some(game)
  timeouts,      \* the ids of the timeouts set and neither cleared nor fired
  storage,       \* AsyncStorage: per key, None or Some(stored text)
  tasks          \* the AsyncStorage calls issued and not completed, in issue
                 \* order, each with the code that awaits it

engineVars ==
  <<fn, epc, pats, clueList, maxSolutions, colCounts, blockCounts, boardRows,
    iters, solutions, ret, did>>

mpVars == <<mp, tape, solution, active, order, k, puzzle>>

callerVars == <<hpc, sc, out>>

saverVars == <<timer, pending, timeouts>>

appVars == <<ui, saverVars, storage, tasks>>

vars == <<catalog, firstHit, engineVars, mpVars, callerVars, appVars>>

Nothing == [applied |-> FALSE, checked |-> FALSE, counted |-> FALSE]

NoRet == [kind |-> "none", val |-> 0]

\* ------------------------------------------------------------------------
\* The search steps shared by the three backtrack functions
\* ------------------------------------------------------------------------

\* blockId with the column taken modulo 3 instead of divided by 3.
blockId_ColumnModulo(r, c) == (r \div 3) * 3 + (c % 3)

blockId(r, c) == (r \div 3) * 3 + (c \div 3)

\* A ceiling test no row passes.
RowFits_NothingFits(row, r, col, blk) ==
  \A c \in Idx :
     row[c] = 1 => /\ ~(col[c] + 1 > 0)
                   /\ ~(blk[blockId(r, c)] + 1 > 0)

\* "ok" after the column loop: no marked column and no block of the row is
\* already at 3.  The block test reads blockCounts as it was before the row.
RowFits(row, r, col, blk) ==
  \A c \in Idx :
     row[c] = 1 => /\ ~(col[c] + 1 > 3)
                   /\ ~(blk[blockId(r, c)] + 1 > 3)

addBlocks(row, r) ==
  [b \in Idx |-> Cardinality({c \in Idx : row[c] = 1 /\ blockId(r, c) = b})]

ApplyCols(col, row) == [c \in Idx |-> col[c] + row[c]]

ApplyBlocks(blk, row, r) == [b \in Idx |-> blk[b] + addBlocks(row, r)[b]]

\* A revert that leaves the column counters as they are.
RevertCols_Forgotten(col, row) == col

RevertCols(col, row) == [c \in Idx |-> col[c] - row[c]]

\* A revert that leaves the block counters as they are.
RevertBlocks_Forgotten(blk, row, r) == blk

RevertBlocks(blk, row, r) == [b \in Idx |-> blk[b] - addBlocks(row, r)[b]]

\* Closing a 3-row band: each of its three blocks must be exactly 3.
BandClosed(r, blk) ==
  (r % 3 = 2) =>
     LET start == (r \div 3) * 3
     IN \A b \in start..(start + 2) : blk[b] = 3

\* A column test that also rejects a column that can only just reach 3.
Feasible_OffByOne(col, remainingRows) ==
  \A c \in Idx : ~(col[c] > 3 \/ col[c] + remainingRows <= 3)

\* Column feasibility.
Feasible(col, remainingRows) ==
  \A c \in Idx : ~(col[c] > 3 \/ col[c] + remainingRows < 3)

AllThree(counts) == \A i \in Idx : counts[i] = 3

\* A partial check that also rejects a clue the open cells can only just
\* reach.
ClueFeasible_TooStrict(current, unknownMaxAdd, clueVal) ==
  /\ ~(current > clueVal)
  /\ ~(current + unknownMaxAdd <= clueVal /\ unknownMaxAdd > 0)
  /\ ~(unknownMaxAdd = 0 /\ current # clueVal)

\* The three rejections of checkCluesPartial for one clue.
ClueFeasible(current, unknownMaxAdd, clueVal) ==
  /\ ~(current > clueVal)
  /\ ~(current + unknownMaxAdd < clueVal)
  /\ ~(unknownMaxAdd = 0 /\ current # clueVal)

checkCluesPartial(clues, rows, lastRowIndex) ==
  \A n \in 1..Len(clues) :
     LET cr == clues[n].r
         cc == clues[n].c
         current ==
           Cardinality({d \in InGrid(cr, cc) :
              /\ cr + NEIGHBOR_DIRS[d][1] <= lastRowIndex
              /\ RowOf(rows[cr + NEIGHBOR_DIRS[d][1]])[cc + NEIGHBOR_DIRS[d][2]] = 1})
         unknownMaxAdd ==
           Cardinality({d \in InGrid(cr, cc) :
              cr + NEIGHBOR_DIRS[d][1] > lastRowIndex})
     IN ClueFeasible(current, unknownMaxAdd, clues[n].v)

checkCluesFull(clues, rows) ==
  \A n \in 1..Len(clues) :
     LET cr == clues[n].r
         cc == clues[n].c
         cnt ==
           Cardinality({d \in InGrid(cr, cc) :
              RowOf(rows[cr + NEIGHBOR_DIRS[d][1]])[cc + NEIGHBOR_DIRS[d][2]] = 1})
     IN cnt = clues[n].v

\* A row filter that lets every pattern through.
PatternAllowed_Unfiltered(p, forbidden) == p \in 1..NumPatterns

\* A pattern is usable in a row when it marks no forbidden (clued) column.
PatternAllowed(p, forbidden) == \A fc \in forbidden : ROW_PATTERNS[p][fc] # 1
\* Forbidden columns keyed by the clue's column instead of its row.
rowForbiddenCols_KeyedByColumn(clues, r) ==
  {clues[n].r : n \in {m \in 1..Len(clues) : clues[m].c = r}}

rowForbiddenCols(clues, r) == {clues[n].c : n \in {m \in 1..Len(clues) : clues[m].r = r}}
\* Row lists built for the rows that carry a clue only; the others stay empty.
validRows_CluedRowsOnly(clues) ==
  [r \in Idx |->
     IF rowForbiddenCols(clues, r) = {}
     THEN << >>
     ELSE SelectSeq([p \in 1..NumPatterns |-> p],
                    LAMBDA p : PatternAllowed(p, rowForbiddenCols(clues, r)))]

validRows(clues) ==
  [r \in Idx |->
     SelectSeq([p \in 1..NumPatterns |-> p],
               LAMBDA p : PatternAllowed(p, rowForbiddenCols(clues, r)))]

\* The row the top frame is at, and that frame's row index.
TopRow == Len(iters) - 1

TopPattern == pats[TopRow][iters[Len(iters)]]

\* Leaving backtrack(r): the caller frame resumes, or the function returns.
AfterReturn(r) == IF r = 0 THEN "ret" ELSE "back"

\* ------------------------------------------------------------------------
\* Entering an engine function
\* ------------------------------------------------------------------------

\* The locals of a search before backtrack(0) is called.
StartSearch(f, rowPatterns, clues, cap) ==
  /\ fn' = f
  /\ epc' = "enter"
  /\ pats' = rowPatterns
  /\ clueList' = clues
  /\ maxSolutions' = cap
  /\ colCounts' = ZeroCounts
  /\ blockCounts' = ZeroCounts
  /\ boardRows' = [r \in Idx |-> 0]
  /\ iters' = << >>
  /\ solutions' = 0
  /\ ret' = NoRet
  /\ did' = Nothing

\* solveCount(clues, maxSolutions) up to its call of backtrack(0).
CallSolveCount(clues, cap) ==
  /\ StartSearch("solveCount", validRows(clues), clues, cap)
  /\ firstHit' = None
  /\ UNCHANGED catalog

\* A clue list whose keys are split into column and row instead of row and
\* column.
GridClues_SwappedKey(grid, n) ==
  LET cells == SelectSeq([i \in 1..(N * N - n) |-> n + i - 1],
                         LAMBDA x : grid[x \div N][x % N] # None)
  IN [i \in 1..Len(cells) |->
        [r |-> cells[i] % N, c |-> cells[i] \div N,
         v |-> grid[cells[i] \div N][cells[i] % N][1]]]

\* The clue list solveOneFromClueGrid builds from a grid, in row-major order:
\* the clues of the cells n, n + 1, ... (cell x is row x \div N, column x % N).
GridClues(grid, n) ==
  LET cells == SelectSeq([i \in 1..(N * N - n) |-> n + i - 1],
                         LAMBDA x : grid[x \div N][x % N] # None)
  IN [i \in 1..Len(cells) |->
        [r |-> cells[i] \div N, c |-> cells[i] % N,
         v |-> grid[cells[i] \div N][cells[i] % N][1]]]

\* solveOneFromClueGrid(puzzleClues) up to its call of backtrack(0).
CallSolveOne(grid) ==
  /\ StartSearch("solveOne", validRows(GridClues(grid, 0)), GridClues(grid, 0), 0)
  /\ UNCHANGED <<catalog, firstHit>>

\* A loop that shuffles ROW_PATTERNS itself and pushes it, without slice().
PatternsPerRow_NoSlice(cat, streams) ==
  [catalog |-> shuffle(cat, streams[1]),
   perRow |-> [r \in Idx |-> shuffle(cat, streams[1])]]

\* for (let r = 0; r < N; r++) { const copy = ROW_PATTERNS.slice();
\* shuffle(copy); patternsPerRow.push(copy); }: the catalog after the loop
\* (slice() made new arrays, so no shuffle touched it) and patternsPerRow.
PatternsPerRow(cat, streams) ==
  [catalog |-> cat,
   perRow |-> [r \in Idx |-> shuffle(cat, streams[r + 1])]]

\* generateBoard() up to its call of backtrack(0): every row gets its own
\* shuffled copy of the catalog; streams[r + 1] is the stream of row r.
CallGenerateBoard(streams) ==
  \E made \in {PatternsPerRow(catalog, streams)} :
     /\ StartSearch("generateBoard", made.perRow, << >>, 0)
     /\ catalog' = made.catalog
     /\ UNCHANGED firstHit

\* ------------------------------------------------------------------------
\* solveCount: backtrack
\* ------------------------------------------------------------------------

\* A complete board is counted only if all columns, all blocks and all clues
\* are exact.
CountsAsSolution(col, blk, clues, rows) ==
  /\ AllThree(col)
  /\ AllThree(blk)
  /\ checkCluesFull(clues, rows)

\* Entry of backtrack(r): the cap test, then the terminal case r = N.
SC_Enter ==
  /\ fn = "solveCount"
  /\ epc = "enter"
  /\ LET r == Len(iters)
     IN IF solutions >= maxSolutions
        THEN /\ epc' = AfterReturn(r)
             /\ did' = Nothing
             /\ UNCHANGED <<iters, solutions>>
        ELSE IF r = N
             THEN LET hit == CountsAsSolution(colCounts, blockCounts, clueList, boardRows)
                  IN /\ solutions' = IF hit THEN solutions + 1 ELSE solutions
                     /\ did' = [Nothing EXCEPT !.counted = hit]
                     /\ epc' = AfterReturn(r)
                     /\ UNCHANGED iters
             ELSE /\ iters' = Append(iters, 1)
                  /\ epc' = "loop"
                  /\ did' = Nothing
                  /\ UNCHANGED solutions
  /\ ret' = IF epc' = "ret" THEN [kind |-> "count", val |-> solutions'] ELSE ret
  /\ firstHit' = IF solutions = 0 /\ solutions' = 1 THEN Some(boardRows) ELSE firstHit
  /\ UNCHANGED <<fn, pats, clueList, maxSolutions, colCounts, blockCounts, boardRows>>
  /\ UNCHANGED <<catalog, mpVars, callerVars, appVars>>

\* One iteration of the for-loop of backtrack(r), up to the recursive call.
\* clueCheck says whether this search prunes with checkCluesPartial.
TryPattern(clueCheck) ==
  LET r == TopRow
      p == TopPattern
      row == ROW_PATTERNS[p]
      ok == RowFits(row, r, colCounts, blockCounts)
      col2 == ApplyCols(colCounts, row)
      blk2 == ApplyBlocks(blockCounts, row, r)
      rows2 == [boardRows EXCEPT ![r] = p]
      closed == BandClosed(r, blk2)
      feasible == Feasible(col2, N - (r + 1))
      descend == /\ ok
                 /\ closed
                 /\ feasible
                 /\ (clueCheck => checkCluesPartial(clueList, rows2, r))
  IN /\ boardRows' = IF ok THEN rows2 ELSE boardRows
     /\ did' = [applied |-> ok,
                checked |-> clueCheck /\ ok /\ closed /\ feasible,
                counted |-> FALSE]
     /\ IF descend
        THEN /\ colCounts' = col2
             /\ blockCounts' = blk2
             /\ epc' = "enter"
             /\ UNCHANGED iters
        ELSE \* continue, or revert and fall to the next iteration
             /\ iters' = [iters EXCEPT ![Len(iters)] = @ + 1]
             /\ colCounts' = IF ok THEN RevertCols(col2, row) ELSE colCounts
             /\ blockCounts' = IF ok THEN RevertBlocks(blk2, row, r) ELSE blockCounts
             /\ UNCHANGED epc

\* The revert after the recursive call, and the step to the next pattern.
RevertTop ==
  /\ colCounts' = RevertCols(colCounts, ROW_PATTERNS[TopPattern])
  /\ blockCounts' = RevertBlocks(blockCounts, ROW_PATTERNS[TopPattern], TopRow)
  /\ iters' = [iters EXCEPT ![Len(iters)] = @ + 1]
  /\ epc' = "loop"

\* The for-loop is exhausted: backtrack(r) returns.
PopFrame ==
  /\ iters' = SubSeq(iters, 1, Len(iters) - 1)
  /\ epc' = AfterReturn(TopRow)

SC_Try ==
  /\ fn = "solveCount"
  /\ epc = "loop"
  /\ iters[Len(iters)] <= Len(pats[TopRow])
  /\ TryPattern(TRUE)
  /\ UNCHANGED <<fn, pats, clueList, maxSolutions, solutions, ret>>
  /\ UNCHANGED <<catalog, firstHit, mpVars, callerVars, appVars>>

SC_Back ==
  /\ fn = "solveCount"
  /\ epc = "back"
  /\ RevertTop
  /\ did' = Nothing
  /\ UNCHANGED <<fn, pats, clueList, maxSolutions, boardRows, solutions, ret>>
  /\ UNCHANGED <<catalog, firstHit, mpVars, callerVars, appVars>>

SC_LoopEnd ==
  /\ fn = "solveCount"
  /\ epc = "loop"
  /\ iters[Len(iters)] > Len(pats[TopRow])
  /\ PopFrame
  /\ did' = Nothing
  /\ ret' = IF epc' = "ret" THEN [kind |-> "count", val |-> solutions] ELSE ret
  /\ UNCHANGED <<fn, pats, clueList, maxSolutions, colCounts, blockCounts,
                 boardRows, solutions>>
  /\ UNCHANGED <<catalog, firstHit, mpVars, callerVars, appVars>>

SolveCountStep == SC_Enter \/ SC_Try \/ SC_Back \/ SC_LoopEnd

\* ------------------------------------------------------------------------
\* solveOneFromClueGrid: backtrack
\* ------------------------------------------------------------------------

SO_Enter ==
  /\ fn = "solveOne"
  /\ epc = "enter"
  /\ LET r == Len(iters)
     IN IF r = N
        THEN /\ ret' = IF CountsAsSolution(colCounts, blockCounts, clueList, boardRows)
                       THEN [kind |-> "board", val |-> clone2D(boardRows)]
                       ELSE [kind |-> "null", val |-> 0]
             /\ epc' = AfterReturn(r)
             /\ UNCHANGED iters
        ELSE /\ iters' = Append(iters, 1)
             /\ epc' = "loop"
             /\ UNCHANGED ret
  /\ did' = Nothing
  /\ UNCHANGED <<fn, pats, clueList, maxSolutions, colCounts, blockCounts,
                 boardRows, solutions>>
  /\ UNCHANGED <<catalog, firstHit, mpVars, callerVars, appVars>>

SO_Try ==
  /\ fn = "solveOne"
  /\ epc = "loop"
  /\ iters[Len(iters)] <= Len(pats[TopRow])
  /\ TryPattern(TRUE)
  /\ UNCHANGED <<fn, pats, clueList, maxSolutions, solutions, ret>>
  /\ UNCHANGED <<catalog, firstHit, mpVars, callerVars, appVars>>

\* const res = backtrack(r + 1); if (res) return res; otherwise revert.
SO_Back ==
  /\ fn = "solveOne"
  /\ epc = "back"
  /\ IF ret.kind = "board"
     THEN /\ PopFrame
          /\ UNCHANGED <<colCounts, blockCounts>>
     ELSE RevertTop
  /\ did' = Nothing
  /\ UNCHANGED <<fn, pats, clueList, maxSolutions, boardRows, solutions, ret>>
  /\ UNCHANGED <<catalog, firstHit, mpVars, callerVars, appVars>>

SO_LoopEnd ==
  /\ fn = "solveOne"
  /\ epc = "loop"
  /\ iters[Len(iters)] > Len(pats[TopRow])
  /\ PopFrame
  /\ ret' = [kind |-> "null", val |-> 0]
  /\ did' = Nothing
  /\ UNCHANGED <<fn, pats, clueList, maxSolutions, colCounts, blockCounts,
                 boardRows, solutions>>
  /\ UNCHANGED <<catalog, firstHit, mpVars, callerVars, appVars>>

SolveOneStep == SO_Enter \/ SO_Try \/ SO_Back \/ SO_LoopEnd

\* ------------------------------------------------------------------------
\* generateBoard: backtrack
\* ------------------------------------------------------------------------

\* What generateBoard does with the value of backtrack(0).
GenerateResult(found, rows) ==
  IF found
  THEN [kind |-> "board", val |-> clone2D(rows)]
  ELSE [kind |-> "throw", val |-> 0]

GB_Enter ==
  /\ fn = "generateBoard"
  /\ epc = "enter"
  /\ LET r == Len(iters)
     IN IF r = N
        THEN /\ ret' = [kind |-> "bool",
                        val |-> AllThree(colCounts) /\ AllThree(blockCounts)]
             /\ epc' = AfterReturn(r)
             /\ UNCHANGED iters
        ELSE /\ iters' = Append(iters, 1)
             /\ epc' = "loop"
             /\ UNCHANGED ret
  /\ did' = Nothing
  /\ UNCHANGED <<fn, pats, clueList, maxSolutions, colCounts, blockCounts,
                 boardRows, solutions>>
  /\ UNCHANGED <<catalog, firstHit, mpVars, callerVars, appVars>>

GB_Try ==
  /\ fn = "generateBoard"
  /\ epc = "loop"
  /\ iters[Len(iters)] <= Len(pats[TopRow])
  /\ TryPattern(FALSE)
  /\ UNCHANGED <<fn, pats, clueList, maxSolutions, solutions, ret>>
  /\ UNCHANGED <<catalog, firstHit, mpVars, callerVars, appVars>>

\* if (feasible && backtrack(r + 1)) return true; otherwise revert.
GB_Back ==
  /\ fn = "generateBoard"
  /\ epc = "back"
  /\ IF ret.val
     THEN /\ PopFrame
          /\ ret' = IF epc' = "ret" THEN GenerateResult(TRUE, boardRows) ELSE ret
          /\ UNCHANGED <<colCounts, blockCounts>>
     ELSE /\ RevertTop
          /\ UNCHANGED ret
  /\ did' = Nothing
  /\ UNCHANGED <<fn, pats, clueList, maxSolutions, boardRows, solutions>>
  /\ UNCHANGED <<catalog, firstHit, mpVars, callerVars, appVars>>

GB_LoopEnd ==
  /\ fn = "generateBoard"
  /\ epc = "loop"
  /\ iters[Len(iters)] > Len(pats[TopRow])
  /\ PopFrame
  /\ ret' = IF epc' = "ret"
            THEN GenerateResult(FALSE, boardRows)
            ELSE [kind |-> "bool", val |-> FALSE]
  /\ did' = Nothing
  /\ UNCHANGED <<fn, pats, clueList, maxSolutions, colCounts, blockCounts,
                 boardRows, solutions>>
  /\ UNCHANGED <<catalog, firstHit, mpVars, callerVars, appVars>>

GenerateStep == GB_Enter \/ GB_Try \/ GB_Back \/ GB_LoopEnd

\* ------------------------------------------------------------------------
\* makePuzzle
\* ------------------------------------------------------------------------

cellKey(cell) == <<cell.r, cell.c>>

\* clueCells: one clue at every cell of the board that holds no berry,
\* in row-major order.
\* The clues of the cells n, n + 1, ... (cell x is row x \div N, column
\* x % N).
ClueCellsFrom(board, cluesFull, n) ==
  SelectSeq([i \in 1..(N * N - n) |->
               [r |-> (n + i - 1) \div N, c |-> (n + i - 1) % N,
                v |-> cluesFull[(n + i - 1) \div N][(n + i - 1) % N]]],
            LAMBDA cl : board[cl.r][cl.c] = 0)

clueCells(board) == ClueCellsFrom(board, computeClues(board), 0)

\* trial = active.filter(...)
Trial(act, cell) ==
  SelectSeq(act, LAMBDA cl : ~(cl.r = cell.r /\ cl.c = cell.c))

\* A minimisation that keeps no removal.
KeepRemoval_Never(sols) == sols < 0

\* if (sols === 1) active = trial
KeepRemoval(sols) == sols = 1

InBlock(cl, br, bc) == (cl.r \div 3) = br /\ (cl.c \div 3) = bc

HasKey(cells, cl) == \E n \in 1..Len(cells) : cellKey(cells[n]) = cellKey(cl)

\* The removed cells taken from all 81 cells of the solution, berries too.
Removed_AllCells(cells, act) ==
  SelectSeq([i \in 1..(N * N) |->
               [r |-> (i - 1) \div N, c |-> (i - 1) % N,
                v |-> computeClues(solution)[(i - 1) \div N][(i - 1) % N]]],
            LAMBDA cl : ~HasKey(act, cl))

\* removed = clueCells.filter((cl) => !activeSet.has(cellKey(cl)))
Removed(cells, act) == SelectSeq(cells, LAMBDA cl : ~HasKey(act, cl))

RemoveAt(seq, idx) == SubSeq(seq, 1, idx - 1) \o SubSeq(seq, idx + 1, Len(seq))

\* A dense branch without the block coverage loop.
CoverBlocks_Skipped(b, st) == st

RECURSIVE CoverBlocks(_, _)
\* The loop over (br, bc), from block b on; st = [active, removed].
CoverBlocks(b, st) ==
  IF b >= 9
  THEN st
  ELSE LET br == b \div 3
           bc == b % 3
           hasActiveInBlock ==
             \E n \in 1..Len(st.active) : InBlock(st.active[n], br, bc)
           found == {n \in 1..Len(st.removed) : InBlock(st.removed[n], br, bc)}
           idx == CHOOSE n \in found : \A m \in found : n <= m
       IN IF ~hasActiveInBlock /\ found # {}
          THEN CoverBlocks(b + 1,
                 [active |-> Append(st.active, st.removed[idx]),
                  removed |-> RemoveAt(st.removed, idx)])
          ELSE CoverBlocks(b + 1, st)

\* A floor loop that restores nothing.
PopUntilFloor_RestoresNothing(act, rem) == act

RECURSIVE PopUntilFloor(_, _)
\* while (active.length < MIN_DENSE_CLUES && removed.length > 0) ...
PopUntilFloor(act, rem) ==
  IF Len(act) < MIN_DENSE_CLUES /\ Len(rem) > 0
  THEN LET picked == rem[Len(rem)]
       IN PopUntilFloor(IF ~HasKey(act, picked) THEN Append(act, picked) ELSE act,
                        SubSeq(rem, 1, Len(rem) - 1))
  ELSE act

\* The dense branch: block coverage, then the floor; s is the stream of
\* shuffle(removed).
Densify(act, cells, s) ==
  LET st == CoverBlocks(0, [active |-> act, removed |-> Removed(cells, act)])
  IN IF Len(st.active) < MIN_DENSE_CLUES
     THEN PopUntilFloor(st.active, shuffle(st.removed, s))
     ELSE st.active

\* A clue grid that leaves out the last active clue.
ClueGridOf_DropsLast(act) ==
  [r \in Idx |-> [c \in Idx |->
     LET hits == {n \in 1..(Len(act) - 1) : act[n].r = r /\ act[n].c = c}
     IN IF hits = {}
        THEN None
        ELSE Some(act[CHOOSE n \in hits : \A m \in hits : m <= n].v)]]

\* The grid makePuzzle returns: null everywhere, then one write per clue.
ClueGridOf(act) ==
  [r \in Idx |-> [c \in Idx |->
     LET hits == {n \in 1..Len(act) : act[n].r = r /\ act[n].c = c}
     IN IF hits = {}
        THEN None
        ELSE Some(act[CHOOSE n \in hits : \A m \in hits : m <= n].v)]]

\* The streams of one makePuzzle run: 9 row shuffles, the shuffle of order,
\* the shuffle of removed.
TapeLen == N + 2

\* makePuzzle(options) is called: generateBoard().
MP_Start ==
  /\ hpc <= Len(sc.script)
  /\ sc.script[hpc] = "makePuzzle"
  /\ epc = "idle"
  /\ mp = "idle"
  /\ mp' = "gen"
  /\ CallGenerateBoard(tape)
  /\ UNCHANGED <<tape, solution, active, order, k, puzzle, appVars>>
  /\ UNCHANGED callerVars

\* generateBoard returned (or threw); checkConstraints; the full clue list;
\* the warm-up solveCount(baseMap, 2).
MP_Generated ==
  /\ mp = "gen"
  /\ epc = "ret"
  /\ IF ret.kind = "board" /\ checkConstraints(ret.val)
     THEN /\ solution' = ret.val
          /\ active' = clueCells(ret.val)
          /\ CallSolveCount(clueCells(ret.val), 2)
          /\ mp' = "warmup"
          /\ UNCHANGED callerVars
     ELSE \* the error propagates to the caller of makePuzzle
          /\ mp' = "threw"
          /\ epc' = "idle"
          /\ fn' = "idle"
          /\ out' = Append(out, [kind |-> "throw", val |-> 0])
          /\ hpc' = hpc + 1
          /\ UNCHANGED <<catalog, firstHit, pats, clueList, maxSolutions, colCounts,
                         blockCounts, boardRows, iters, solutions, ret, did,
                         solution, active, sc>>
  /\ UNCHANGED <<tape, order, k, puzzle, appVars>>

\* order = shuffle(clueCells); the first trial of the minimisation loop.
MP_Warmed ==
  /\ mp = "warmup"
  /\ epc = "ret"
  /\ order' = shuffle(clueCells(solution), tape[N + 1])
  /\ k' = 1
  /\ CallSolveCount(Trial(active, order'[1]), 2)
  /\ mp' = "trial"
  /\ UNCHANGED <<tape, solution, active, puzzle, appVars>>
  /\ UNCHANGED callerVars

\* sols = solveCount(trialMap, 2) returned: keep or restore the clue, then
\* the next trial, or the end of the loop.
MP_Trial ==
  /\ mp = "trial"
  /\ epc = "ret"
  /\ active' = IF KeepRemoval(ret.val) THEN Trial(active, order[k]) ELSE active
  /\ IF k < Len(order)
     THEN /\ k' = k + 1
          /\ CallSolveCount(Trial(active', order[k + 1]), 2)
          /\ UNCHANGED mp
     ELSE /\ mp' = "minimised"
          /\ epc' = "idle"
          /\ fn' = "idle"
          /\ UNCHANGED <<k, catalog, firstHit, pats, clueList, maxSolutions, colCounts,
                         blockCounts, boardRows, iters, solutions, ret, did>>
  /\ UNCHANGED <<tape, solution, order, puzzle, appVars>>
  /\ UNCHANGED callerVars

\* The optional dense branch and the return.  options.dense is an input the
\* code only reads here, so the model draws it here.
MP_Finish ==
  /\ mp = "minimised"
  /\ \E dense \in BOOLEAN :
        LET final == IF dense
                     THEN Densify(active, clueCells(solution), tape[N + 2])
                     ELSE active
        IN /\ active' = final
           /\ puzzle' = Some([solution |-> solution,
                              puzzleClues |-> ClueGridOf(final),
                              dense |-> dense,
                              minimised |-> active])
  /\ mp' = "done"
  /\ order' = << >>
  /\ out' = Append(out, [kind |-> "puzzle", val |-> 0])
  /\ hpc' = hpc + 1
  /\ UNCHANGED <<tape, solution, k, sc, appVars>>
  /\ UNCHANGED <<catalog, firstHit, engineVars>>

MakePuzzleStep == MP_Start \/ MP_Generated \/ MP_Warmed \/ MP_Trial \/ MP_Finish

\* ------------------------------------------------------------------------
\* The caller: a script of calls of the exported functions
\* ------------------------------------------------------------------------

\* The clue list the caller passes: the scenario's clues, plus its extra clue
\* (a clue at a cell the scenario's clues leave free) when withExtra.
CallerClues(withExtra) ==
  IF withExtra /\ sc.extra # None THEN Append(sc.clues, sc.extra[1]) ELSE sc.clues

NextCall(name) ==
  /\ epc = "idle"
  /\ mp \in {"idle", "done", "threw"}
  /\ hpc <= Len(sc.script)
  /\ sc.script[hpc] = name

D_Generate ==
  /\ NextCall("generateBoard")
  /\ CallGenerateBoard(tape)
  /\ UNCHANGED <<mpVars, callerVars, appVars>>

D_SolveCount ==
  /\ NextCall("solveCount")
  /\ CallSolveCount(CallerClues(FALSE), sc.cap)
  /\ UNCHANGED <<mpVars, callerVars, appVars>>

D_SolveCountExtra ==
  /\ NextCall("solveCountExtra")
  /\ CallSolveCount(CallerClues(TRUE), sc.cap)
  /\ UNCHANGED <<mpVars, callerVars, appVars>>

D_SolveOne ==
  /\ NextCall("solveOne")
  /\ CallSolveOne(ClueGridOf(CallerClues(TRUE)))
  /\ UNCHANGED <<mpVars, callerVars, appVars>>

\* The caller of makePuzzle counts the solutions of the puzzle it got.
D_Recount ==
  /\ NextCall("recount")
  /\ CallSolveCount(GridClues(puzzle[1].puzzleClues, 0), 2)
  /\ UNCHANGED <<mpVars, callerVars, appVars>>

\* The caller of makePuzzle solves the puzzle it got.
D_Resolve ==
  /\ NextCall("resolve")
  /\ CallSolveOne(puzzle[1].puzzleClues)
  /\ UNCHANGED <<mpVars, callerVars, appVars>>

\* The caller of makePuzzle takes one clue off the grid it got (the clues in
\* row-major order, one per call) and counts the solutions of the rest.
\* Only grids made without densification are probed.
D_Probe ==
  /\ epc = "idle"
  /\ mp = "done"
  /\ hpc > Len(sc.script)
  /\ ~puzzle[1].dense
  /\ LET clues == GridClues(puzzle[1].puzzleClues, 0)
         i == hpc - Len(sc.script)
     IN /\ i <= Len(clues)
        /\ CallSolveCount(RemoveAt(clues, i), 2)
  /\ UNCHANGED <<mpVars, callerVars, appVars>>

\* An exported function returns to the caller.
D_Return ==
  /\ epc = "ret"
  /\ mp \in {"idle", "done", "threw"}
  /\ out' = Append(out, ret)
  /\ hpc' = hpc + 1
  /\ epc' = "idle"
  /\ fn' = "idle"
  /\ UNCHANGED <<catalog, firstHit, pats, clueList, maxSolutions, colCounts, blockCounts,
                 boardRows, iters, solutions, ret, did, sc>>
  /\ UNCHANGED <<mpVars, appVars>>

\* ------------------------------------------------------------------------
\* The App before its first render, gameSave.ts as loaded
\* ------------------------------------------------------------------------

STORAGE_KEY == "blueberry:lastGame:v1"

POOL_PROGRESS_KEY == "blueberry:poolProgress:v1"

NoStatus == [text |-> "", ok |-> None, idx |-> None]

\* The initial values of the App's useState calls.
InitialUi ==
  [screen |-> "start", puzzle |-> None, puzzleSource |-> "generated",
   playerBoard |-> << >>, showSolution |-> FALSE, status |-> NoStatus,
   isGenerating |-> FALSE, history |-> << >>, future |-> << >>,
   pool |-> None, currentPoolIndex |-> None, poolProgressLoadedCount |-> 0,
   isSolved |-> FALSE]

\* let timer = null; let pending = null; and a storage without keys.
SaverIdle ==
  /\ timer = None
  /\ pending = None
  /\ timeouts = {}

EmptyStorage == [key \in {STORAGE_KEY, POOL_PROGRESS_KEY} |-> None]

AppIdle ==
  /\ ui = InitialUi
  /\ SaverIdle
  /\ storage = EmptyStorage
  /\ tasks = << >>

\* ------------------------------------------------------------------------
\* Initial states
\* ------------------------------------------------------------------------

EngineIdle ==
  /\ catalog = [p \in 1..NumPatterns |-> p]
  /\ firstHit = None
  /\ fn = "idle"
  /\ epc = "idle"
  /\ pats = [r \in Idx |-> << >>]
  /\ clueList = << >>
  /\ maxSolutions = 0
  /\ colCounts = ZeroCounts
  /\ blockCounts = ZeroCounts
  /\ boardRows = [r \in Idx |-> 0]
  /\ iters = << >>
  /\ solutions = 0
  /\ ret = NoRet
  /\ did = Nothing

MakePuzzleIdle ==
  /\ mp = "idle"
  /\ solution = None
  /\ active = << >>
  /\ order = << >>
  /\ k = 0
  /\ puzzle = None

\* --- generateBoard scenarios: the stream of row r depends on r mod 3.
GenTapes ==
  {[i \in 1..TapeLen |-> IF i % 3 = 0 THEN a ELSE IF i % 3 = 1 THEN b ELSE c] :
     a \in Streams, b \in Streams, c \in Streams}

\* The board whose row r marks the columns cols[r + 1].
BoardOfCols(cols) == [r \in Idx |-> [c \in Idx |-> IF c \in cols[r + 1] THEN 1 ELSE 0]]

\* Valid boards the shuffles may happen to propose row by row.
TargetBoards ==
  {BoardOfCols(<< {0, 3, 6}, {1, 4, 7}, {2, 5, 8},
                  {0, 3, 6}, {1, 4, 7}, {2, 5, 8},
                  {0, 3, 6}, {1, 4, 7}, {2, 5, 8} >>),
   BoardOfCols(<< {0, 1, 2}, {3, 4, 5}, {6, 7, 8},
                  {0, 1, 2}, {3, 4, 5}, {6, 7, 8},
                  {0, 1, 2}, {3, 4, 5}, {6, 7, 8} >>),
   BoardOfCols(<< {0, 4, 8}, {1, 5, 6}, {2, 3, 7},
                  {2, 3, 7}, {0, 4, 8}, {1, 5, 6},
                  {1, 5, 6}, {2, 3, 7}, {0, 4, 8} >>),
   BoardOfCols(<< {6, 7, 8}, {0, 1, 2}, {3, 4, 5},
                  {2, 5, 8}, {1, 4, 7}, {0, 3, 6},
                  {0, 4, 8}, {2, 3, 7}, {1, 5, 6} >>)}

\* The shuffles that put row r of a target board first in patternsPerRow[r].
TargetTapes ==
  {[i \in 1..TapeLen |->
      IF i <= N
      THEN <<"front", (CHOOSE p \in 1..NumPatterns : ROW_PATTERNS[p] = b[i - 1]) - 1>>
      ELSE <<"front", 0>>] : b \in TargetBoards}

InitGen ==
  /\ EngineIdle
  /\ AppIdle
  /\ MakePuzzleIdle
  /\ tape \in GenTapes \cup TargetTapes
  /\ hpc = 1
  /\ sc = [script |-> <<"generateBoard">>]
  /\ out = << >>

NextGen == D_Generate \/ GenerateStep \/ D_Return

SpecGen == InitGen /\ [][NextGen]_vars

\* generateBoard is synchronous code: once called it runs until it returns or
\* throws, so every enabled step of the call is eventually taken.
SpecGenFair == InitGen /\ [][NextGen]_vars /\ WF_vars(GenerateStep \/ D_Return)

\* --- makePuzzle scenarios: run t shuffles the catalogs with a constant
\* stream and the clue orders with the mirror stream t.
PuzzleTapes ==
  {[i \in 1..TapeLen |->
      IF i <= N THEN <<"const", Min(t, Min(MaxConst, 4) - 1)>> ELSE <<"mirror", t>>] :
     t \in 0..(MaxKeep - 1)}

InitPuzzle ==
  /\ EngineIdle
  /\ AppIdle
  /\ MakePuzzleIdle
  /\ tape \in PuzzleTapes
  /\ hpc = 1
  /\ sc = [script |-> <<"makePuzzle", "recount", "resolve", "generateBoard">>]
  /\ out = << >>

NextPuzzle ==
  \/ MakePuzzleStep
  \/ GenerateStep
  \/ SolveCountStep
  \/ D_Recount
  \/ D_Resolve
  \/ SolveOneStep
  \/ D_Generate
  \/ D_Probe
  \/ D_Return

SpecPuzzle == InitPuzzle /\ [][NextPuzzle]_vars

\* --- solver scenarios: clue lists derived from two valid boards.

\* Rows {0,3,6}, {1,4,7}, {2,5,8}, repeated in every band.
DiagonalBoard ==
  BoardOfCols(<< {0, 3, 6}, {1, 4, 7}, {2, 5, 8},
                 {0, 3, 6}, {1, 4, 7}, {2, 5, 8},
                 {0, 3, 6}, {1, 4, 7}, {2, 5, 8} >>)

\* Rows {0,1,2}, {3,4,5}, {6,7,8}, repeated in every band: the board
\* generateBoard returns when no shuffle moves anything.
StripedBoard ==
  BoardOfCols(<< {0, 1, 2}, {3, 4, 5}, {6, 7, 8},
                 {0, 1, 2}, {3, 4, 5}, {6, 7, 8},
                 {0, 1, 2}, {3, 4, 5}, {6, 7, 8} >>)

TestBoards == {DiagonalBoard, StripedBoard}

\* The clues of the first m rows of a board.
PrefixClues(board, m) == SelectSeq(clueCells(board), LAMBDA cl : cl.r < m)

\* The numbers of clued rows the scenarios use: none, a few, all but two, all
\* but one, all.
ClueRowChoices == (0..Min(MaxClueRows, N)) \cup {N - 2, N - 1, N}

\* The first clue of a list, with its value changed.
Altered(clues, alt) ==
  IF alt = "none" \/ clues = << >>
  THEN clues
  ELSE [clues EXCEPT ![1] =
          [@ EXCEPT !.v = IF alt = "plus1" THEN @ + 1 ELSE 9]]

\* The extra clues tried on top of the first m rows: at the first free cell
\* and at the first berry of row m (of row 0 when every row is clued), with
\* the value the board gives the cell and with that value plus one.
ExtraChoices(board, m) ==
  LET r == IF m < N THEN m ELSE 0
      berries == {c \in Idx : board[r][c] = 1}
      frees == {c \in Idx : board[r][c] = 0}
      firstOf(S) == CHOOSE c \in S : \A d \in S : c <= d
      cols == {firstOf(berries)} \cup (IF m < N THEN {firstOf(frees)} ELSE {})
  IN {[r |-> r, c |-> c, v |-> computeClues(board)[r][c] + dv] :
        c \in cols, dv \in {0, 1}}

ExtraScenarios ==
  UNION {{<<bm[1], bm[2], e>> : e \in ExtraChoices(bm[1], bm[2])} :
           bm \in TestBoards \X ClueRowChoices}

SolveScenarios ==
  \* the clues of the first m rows, unchanged
  {[script |-> <<"solveCount", "solveOne">>, base |-> b, m |-> m, alt |-> "none",
    clues |-> PrefixClues(b, m), cap |-> cap, extra |-> None] :
      b \in TestBoards, m \in ClueRowChoices, cap \in 0..MaxCap}
  \cup
  \* the same, counted and solved again with one more clue
  {[script |-> <<"solveCount", "solveCountExtra", "solveOne">>, base |-> x[1], m |-> x[2],
    alt |-> "none", clues |-> PrefixClues(x[1], x[2]), cap |-> cap, extra |-> Some(x[3])] :
      x \in ExtraScenarios, cap \in 1..MaxCap}
  \cup
  \* the first clue contradicts the rows the other clues force, or exceeds 8
  {[script |-> <<"solveCount", "solveOne">>, base |-> b, m |-> m, alt |-> alt,
    clues |-> Altered(PrefixClues(b, m), alt), cap |-> 2, extra |-> None] :
      b \in TestBoards, m \in ClueRowChoices \ {0}, alt \in {"plus1", "nine"}}

InitSolve ==
  /\ EngineIdle
  /\ AppIdle
  /\ MakePuzzleIdle
  /\ tape = << >>
  /\ hpc = 1
  /\ sc \in SolveScenarios
  /\ out = << >>

NextSolve ==
  \/ D_SolveCount
  \/ D_SolveCountExtra
  \/ D_SolveOne
  \/ SolveCountStep
  \/ SolveOneStep
  \/ D_Return

SpecSolve == InitSolve /\ [][NextSolve]_vars

\* ------------------------------------------------------------------------
\* computeClues called on its own
\* ------------------------------------------------------------------------

\* Cells at the corners, on the edges and inside the grid.
ProbeCells ==
  {<<0, 0>>, <<0, 8>>, <<8, 0>>, <<8, 8>>, <<0, 4>>, <<4, 0>>, <<4, 4>>, <<5, 5>>}

BoardOfCells(cells) == [r \in Idx |-> [c \in Idx |-> IF <<r, c>> \in cells THEN 1 ELSE 0]]

\* The 0/1 boards computeClues is called on: the empty and the full board,
\* one berry anywhere, a few berries on the probe cells, the valid boards.
ClueBoards ==
  {BoardOfCells({}), BoardOfCells(Idx \X Idx)}
  \cup {BoardOfCells({x}) : x \in Idx \X Idx}
  \cup {BoardOfCells(S) : S \in {T \in SUBSET ProbeCells : Cardinality(T) <= MaxBerries}}
  \cup TestBoards

\* const clues = computeClues(board): the function reads board and fills a
\* matrix of its own.
D_ComputeClues ==
  /\ NextCall("computeClues")
  /\ out' = Append(out, [kind |-> "clues", val |-> computeClues(sc.board)])
  /\ hpc' = hpc + 1
  /\ UNCHANGED <<catalog, firstHit, engineVars, mpVars, sc, appVars>>

InitClues ==
  /\ EngineIdle
  /\ AppIdle
  /\ MakePuzzleIdle
  /\ tape = << >>
  /\ hpc = 1
  /\ sc \in {[script |-> <<"computeClues", "computeClues">>, board |-> b] : b \in ClueBoards}
  /\ out = << >>

NextClues == D_ComputeClues

SpecClues == InitClues /\ [][NextClues]_vars

\* ------------------------------------------------------------------------
\* The flat clue arrays of the puzzle pool: encoder, validators, decoders
\* ------------------------------------------------------------------------

IsInt(x) == x \in Int

ValidationError == [kind |-> "error", val |-> 0]

\* An encoder that writes 0 for a cell without a clue.
encodeCluesTo81_NullAsZero(puzzleClues) ==
  [i \in 1..(N * N) |->
     LET v == puzzleClues[(i - 1) \div N][(i - 1) % N]
     IN IF v = None THEN 0 ELSE v[1]]

\* encodeCluesTo81 of the pool generator: row-major, null becomes -1.
encodeCluesTo81(puzzleClues) ==
  [i \in 1..(N * N) |->
     LET v == puzzleClues[(i - 1) \div N][(i - 1) % N]
     IN IF v = None THEN -1 ELSE v[1]]

\* validateClues81 of the pool generator: "ok", or the throw.
validateClues81(arr) ==
  IF Len(arr) # N * N
  THEN ValidationError
  ELSE IF \E i \in 1..Len(arr) :
             arr[i] # -1 /\ ~(IsInt(arr[i]) /\ arr[i] >= 0 /\ arr[i] <= 8)
       THEN ValidationError
       ELSE [kind |-> "ok", val |-> 0]

\* decodeClues81ToGrid(clues81, N) of gameSave: the length is compared with
\* the N passed in, every entry other than -1 must be an integer in 0..8.
decodeClues81ToGrid_gameSave(clues81, n) ==
  IF Len(clues81) # n * n
  THEN ValidationError
  ELSE IF \E i \in 1..(n * n) :
             clues81[i] # -1 /\ (~IsInt(clues81[i]) \/ clues81[i] < 0 \/ clues81[i] > 8)
       THEN ValidationError
       ELSE [kind |-> "grid",
             val |-> [r \in 0..(n - 1) |-> [c \in 0..(n - 1) |->
                        LET v == clues81[r * n + c + 1]
                        IN IF v = -1 THEN None ELSE Some(v)]]]

\* decodeClues81ToGrid(clues81) of the App: the length is compared with N * N,
\* the entries are copied, -1 becoming null.
decodeClues81ToGrid_App(clues81) ==
  IF Len(clues81) # N * N
  THEN ValidationError
  ELSE [kind |-> "grid",
        val |-> [r \in Idx |-> [c \in Idx |->
                   LET v == clues81[r * N + c + 1]
                   IN IF v = -1 THEN None ELSE Some(v)]]]

\* validatePoolOrThrow of the App, for a pool object whose fields have the
\* types of PuzzlePoolV1.
validatePoolOrThrow(o) ==
  IF o.version # 1 THEN ValidationError
  ELSE IF ~IsInt(o.N) \/ o.N # N THEN ValidationError
  ELSE IF Len(o.puzzles) = 0 THEN ValidationError
  ELSE IF \E i \in 1..Len(o.puzzles) :
            LET p == o.puzzles[i]
            IN \/ p.genSeconds < 0
               \/ Len(p.clues81) # N * N
               \/ \E j \in 1..Len(p.clues81) :
                     LET v == p.clues81[j]
                     IN ~IsInt(v) \/ (v # -1 /\ (v < 0 \/ v > 8))
       THEN ValidationError
       ELSE [kind |-> "pool", val |-> o]

\* The pool file the App loads: one entry holding the scenario's array.
PoolOf(clues81, n) ==
  [version |-> 1, N |-> n,
   puzzles |-> << [genSeconds |-> 1, humanComplex |-> 100, clues81 |-> clues81] >>]

\* buildPuzzleFromPoolIndex: decodeClues81ToGrid(entry.clues81, pool.N).
D_DecodeSave ==
  /\ NextCall("decodeSave")
  /\ out' = Append(out, decodeClues81ToGrid_gameSave(sc.clues81, sc.n))
  /\ hpc' = hpc + 1
  /\ UNCHANGED <<catalog, firstHit, engineVars, mpVars, sc, appVars>>

\* The App's decoder called on the array as it is.
D_DecodeApp ==
  /\ NextCall("decodeApp")
  /\ out' = Append(out, decodeClues81ToGrid_App(sc.clues81))
  /\ hpc' = hpc + 1
  /\ UNCHANGED <<catalog, firstHit, engineVars, mpVars, sc, appVars>>

\* The App's load of the pool: setPool(validated), or setPool(null) on a throw.
D_ValidatePool ==
  /\ NextCall("validatePool")
  /\ out' = Append(out, validatePoolOrThrow(PoolOf(sc.clues81, sc.n)))
  /\ hpc' = hpc + 1
  /\ UNCHANGED <<catalog, firstHit, engineVars, mpVars, sc, appVars>>

\* loadNextPuzzleFromPool: only with a pool that passed the validation.
D_DecodePool ==
  /\ NextCall("decodePool")
  /\ out[hpc - 1].kind = "pool"
  /\ out' = Append(out, decodeClues81ToGrid_App(out[hpc - 1].val.puzzles[1].clues81))
  /\ hpc' = hpc + 1
  /\ UNCHANGED <<catalog, firstHit, engineVars, mpVars, sc, appVars>>

\* The pool generator writes a grid and the App side reads it back:
\* validateClues81(encodeCluesTo81(g)), then decodeClues81ToGrid(.., N).
D_RoundTrip ==
  /\ NextCall("roundTrip")
  /\ \E arr \in {encodeCluesTo81(sc.grid)} :
        out' = Append(out, [kind |-> "roundTrip",
                            val |-> <<validateClues81(arr),
                                      decodeClues81ToGrid_gameSave(arr, N)>>])
  /\ hpc' = hpc + 1
  /\ UNCHANGED <<catalog, firstHit, engineVars, mpVars, sc, appVars>>

\* Clue grids: the clues of the first rows of a board, and grids that hold
\* every value from null to 8 (cell x holds (x + shift) % 10 - 1, -1 being null).
ClueGrids ==
  {ClueGridOf(PrefixClues(b, m)) : b \in TestBoards, m \in 0..N}
  \cup {[r \in Idx |-> [c \in Idx |->
           LET v == ((r * N + c + shift) % 10) - 1
           IN IF v = -1 THEN None ELSE Some(v)]] : shift \in 0..9}

\* Arrays the generator wrote for the clues of the first rows of a board.
WrittenArrays ==
  {encodeCluesTo81(ClueGridOf(PrefixClues(b, m))) : b \in TestBoards, m \in {0, 3, N}}

EditPositions == {1, 41, N * N}

EditValues == {-2, -1, 0, 8, 9}

\* An array with at most n of its entries overwritten.
RECURSIVE Edited(_, _)
Edited(arrays, n) ==
  IF n = 0
  THEN arrays
  ELSE Edited(arrays \cup {[a EXCEPT ![i] = v] :
                             a \in arrays, i \in EditPositions, v \in EditValues},
              n - 1)

\* The arrays the decoders are given: written ones, edited ones, ones of
\* another length.
DecodeInputs ==
  LET full == Edited(WrittenArrays, MaxEdits)
  IN {[clues81 |-> a, n |-> N] : a \in full}
     \cup {[clues81 |-> SubSeq(a, 1, N * N - 1), n |-> N] : a \in WrittenArrays}
     \cup {[clues81 |-> Append(a, 0), n |-> N] : a \in WrittenArrays}
     \cup {[clues81 |-> << >>, n |-> N]}

DecodeScripts ==
  {<<"decodeSave">>, <<"decodeApp">>, <<"validatePool", "decodePool">>}

InitDecode ==
  /\ EngineIdle
  /\ AppIdle
  /\ MakePuzzleIdle
  /\ tape = << >>
  /\ hpc = 1
  /\ sc \in {[script |-> s, clues81 |-> x.clues81, n |-> x.n, grid |-> None] :
               s \in DecodeScripts, x \in DecodeInputs}
            \cup {[script |-> <<"roundTrip">>, clues81 |-> << >>, n |-> N, grid |-> g] :
                    g \in ClueGrids}
  /\ out = << >>

NextDecode ==
  D_DecodeSave \/ D_DecodeApp \/ D_ValidatePool \/ D_DecodePool \/ D_RoundTrip

SpecDecode == InitDecode /\ [][NextDecode]_vars

\* ------------------------------------------------------------------------
\* gameSave.ts: AsyncStorage and the pool progress
\* ------------------------------------------------------------------------

\* JSON.stringify of a value made of numbers, booleans, null, arrays and
\* plain objects: a text that JSON.parse reads back as the value.
JSONstringify(x) == [parses |-> TRUE, val |-> x]

\* A call of AsyncStorage that has not completed: op on key (val: the text
\* of a setItem), awaited by the code at `then` with the locals ctx.
Task(op, key, val, then, ctx) ==
  [op |-> op, key |-> key, val |-> val, then |-> then, ctx |-> ctx]

\* AsyncStorage once the call t has taken effect.
StorageAfter(t) ==
  IF t.op = "setItem" THEN [storage EXCEPT ![t.key] = Some(t.val)]
  ELSE IF t.op = "removeItem" THEN [storage EXCEPT ![t.key] = None]
  ELSE storage

\* The oldest call completes and the code awaiting it runs: the calls take
\* effect in the order they were issued.
Completes(then) ==
  /\ epc = "idle"
  /\ tasks # << >>
  /\ Head(tasks).then = then

\* Array.from(new Set(nums)).sort((a, b) => a - b)
uniqSorted(nums) ==
  LET elems == {nums[n] : n \in 1..Len(nums)}
  IN [n \in 1..Cardinality(elems) |->
        CHOOSE x \in elems : Cardinality({y \in elems : y < x}) = n - 1]

validatePoolProgressV1(x) ==
  /\ x.v = 1
  /\ \A n \in 1..Len(x.loaded) : IsInt(x.loaded[n])
  /\ \A n \in 1..Len(x.solved) : IsInt(x.solved[n])

\* `v${pool.version}|N${pool.N}|t${pool.generatedAtUtc}`
getPoolVersion(pool) == <<pool.version, pool.N, pool.generatedAtUtc>>

FreshProgress(poolVersion) ==
  [v |-> 1, poolVersion |-> poolVersion, loaded |-> << >>, solved |-> << >>]

\* loadPoolProgress(pool) from the point where getItem has returned raw;
\* poolVersion is getPoolVersion(pool), taken before the getItem.
loadPoolProgress(raw, poolVersion) ==
  IF raw = None THEN FreshProgress(poolVersion)
  ELSE IF ~raw[1].parses THEN FreshProgress(poolVersion)
  ELSE IF ~validatePoolProgressV1(raw[1].val) THEN FreshProgress(poolVersion)
  ELSE IF raw[1].val.poolVersion # poolVersion THEN FreshProgress(poolVersion)
  ELSE [raw[1].val EXCEPT !.loaded = uniqSorted(@), !.solved = uniqSorted(@)]

\* A markPoolIndexLoaded that leaves the list as it is.
AddLoaded_Forgotten(progress, index) == progress

\* progress.loaded = uniqSorted([...progress.loaded, index])
AddLoaded(progress, index) ==
  [progress EXCEPT !.loaded = uniqSorted(Append(@, index))]

\* progress.solved = uniqSorted([...progress.solved, index])
AddSolved(progress, index) ==
  [progress EXCEPT !.solved = uniqSorted(Append(@, index))]

getNextNotLoadedIndex(pool, progress) ==
  LET loaded == {progress.loaded[n] : n \in 1..Len(progress.loaded)}
      free == {i \in 0..(Len(pool.puzzles) - 1) : i \notin loaded}
  IN IF free = {} THEN None ELSE Some(CHOOSE i \in free : \A j \in free : i <= j)

\* getRandomNotLoadedIndex: the indices Math.random can pick, or {None}.
getRandomNotLoadedIndex(pool, progress) ==
  LET loaded == {progress.loaded[n] : n \in 1..Len(progress.loaded)}
      remaining == {i \in 0..(Len(pool.puzzles) - 1) : i \notin loaded}
  IN IF remaining = {} THEN {None} ELSE {Some(i) : i \in remaining}

\* The code that awaits markPoolIndexLoaded / markPoolIndexSolved goes on
\* with the progress returned: nothing after `void`; the finally of the
\* loader after a skip; setPoolProgressLoadedCount and the finally after a
\* game was started.
AfterMark(caller, updated) ==
  IF caller = "skipped" THEN [ui EXCEPT !.isGenerating = FALSE]
  ELSE IF caller = "started"
       THEN [ui EXCEPT !.poolProgressLoadedCount = Len(updated.loaded),
                       !.isGenerating = FALSE]
       ELSE ui

\* The code that awaits resetPoolProgress: nothing for a bare call;
\* handleResetPoolProgress updates the count and the status.
AfterReset(caller) ==
  IF caller = "handleResetPoolProgress"
  THEN [ui EXCEPT !.poolProgressLoadedCount = 0,
                  !.status = [text |-> "Pool progress reset.", ok |-> Some(TRUE),
                              idx |-> None]]
  ELSE ui

\* markPoolIndexLoaded / markPoolIndexSolved are called: getPoolVersion, then
\* the getItem of loadPoolProgress is issued.
CallMark(fname, pool, index, caller) ==
  Task("getItem", POOL_PROGRESS_KEY, None, fname,
       [poolVersion |-> getPoolVersion(pool), index |-> index,
        progress |-> None, caller |-> caller])

CallReset(caller) ==
  Task("getItem", POOL_PROGRESS_KEY, None, "resetPoolProgress",
       [poolVersion |-> None, index |-> None, progress |-> None, caller |-> caller])

\* markPoolIndexLoaded, from the return of loadPoolProgress to the setItem
\* of savePoolProgress.
T_MarkLoaded ==
  /\ Completes("markPoolIndexLoaded")
  /\ LET t == Head(tasks)
         progress == AddLoaded(loadPoolProgress(storage[POOL_PROGRESS_KEY],
                                                t.ctx.poolVersion),
                               t.ctx.index)
     IN tasks' = Append(Tail(tasks),
                        Task("setItem", POOL_PROGRESS_KEY, JSONstringify(progress),
                             "savePoolProgress", [t.ctx EXCEPT !.progress = progress]))
  /\ UNCHANGED <<ui, saverVars, storage>>
  /\ UNCHANGED <<catalog, firstHit, engineVars, mpVars, callerVars>>

\* markPoolIndexSolved, likewise.
T_MarkSolved ==
  /\ Completes("markPoolIndexSolved")
  /\ LET t == Head(tasks)
         progress == AddSolved(loadPoolProgress(storage[POOL_PROGRESS_KEY],
                                                t.ctx.poolVersion),
                               t.ctx.index)
     IN tasks' = Append(Tail(tasks),
                        Task("setItem", POOL_PROGRESS_KEY, JSONstringify(progress),
                             "savePoolProgress", [t.ctx EXCEPT !.progress = progress]))
  /\ UNCHANGED <<ui, saverVars, storage>>
  /\ UNCHANGED <<catalog, firstHit, engineVars, mpVars, callerVars>>

\* The setItem of savePoolProgress completes; the mark function returns
\* progress to the code that awaits it.
T_ProgressSaved ==
  /\ Completes("savePoolProgress")
  /\ storage' = StorageAfter(Head(tasks))
  /\ tasks' = Tail(tasks)
  /\ ui' = AfterMark(Head(tasks).ctx.caller, Head(tasks).ctx.progress)
  /\ UNCHANGED saverVars
  /\ UNCHANGED <<catalog, firstHit, engineVars, mpVars, callerVars>>

\* resetPoolProgress after its getItem: return when nothing is stored,
\* removeItem otherwise (every branch of the try and the catch removes).
T_ResetRead ==
  /\ Completes("resetPoolProgress")
  /\ IF storage[POOL_PROGRESS_KEY] = None
     THEN /\ tasks' = Tail(tasks)
          /\ ui' = AfterReset(Head(tasks).ctx.caller)
     ELSE /\ tasks' = Append(Tail(tasks),
                             Task("removeItem", POOL_PROGRESS_KEY, None,
                                  "resetPoolProgress.removeItem", Head(tasks).ctx))
          /\ UNCHANGED ui
  /\ UNCHANGED <<saverVars, storage>>
  /\ UNCHANGED <<catalog, firstHit, engineVars, mpVars, callerVars>>

T_ResetRemoved ==
  /\ Completes("resetPoolProgress.removeItem")
  /\ storage' = StorageAfter(Head(tasks))
  /\ tasks' = Tail(tasks)
  /\ ui' = AfterReset(Head(tasks).ctx.caller)
  /\ UNCHANGED saverVars
  /\ UNCHANGED <<catalog, firstHit, engineVars, mpVars, callerVars>>

PoolProgressStep ==
  T_MarkLoaded \/ T_MarkSolved \/ T_ProgressSaved \/ T_ResetRead \/ T_ResetRemoved

\* ------------------------------------------------------------------------
\* The pool progress functions called directly, in any order
\* ------------------------------------------------------------------------

\* A pool entry as the generator writes it.
PoolEntry(clues) ==
  [genSeconds |-> 1, humanComplex |-> 100,
   clues81 |-> encodeCluesTo81(ClueGridOf(clues))]

\* Pools of three puzzles: the full clues of a valid board (one solution),
\* and the same with the first clue raised by one (no solution).
TestPools ==
  {[version |-> 1, N |-> N, generatedAtUtc |-> "2024", dense |-> FALSE,
    puzzles |-> <<PoolEntry(e[1]), PoolEntry(e[2]), PoolEntry(e[3])>>] :
      e \in {<<Altered(PrefixClues(DiagonalBoard, N), "plus1"),
               PrefixClues(StripedBoard, N),
               PrefixClues(DiagonalBoard, N)>>,
             <<PrefixClues(DiagonalBoard, N),
               Altered(PrefixClues(StripedBoard, N), "plus1"),
               Altered(PrefixClues(DiagonalBoard, N), "plus1")>>}}

\* What AsyncStorage can hold under POOL_PROGRESS_KEY when the App starts:
\* nothing, progress of this pool, progress of another pool, an object that
\* is no progress, a text that is no JSON.
StoredProgress(pool) ==
  {None,
   Some(JSONstringify([v |-> 1, poolVersion |-> getPoolVersion(pool),
                       loaded |-> <<2, 2>>, solved |-> << >>])),
   Some(JSONstringify([v |-> 1, poolVersion |-> <<1, N, "2023">>,
                       loaded |-> <<0, 1>>, solved |-> <<0>>])),
   Some(JSONstringify([v |-> 2, poolVersion |-> getPoolVersion(pool),
                       loaded |-> <<0>>, solved |-> << >>])),
   Some([parses |-> FALSE, val |-> FreshProgress(<<0, 0, "">>)])}

\* A caller calls markPoolIndexLoaded(pool, i) and does not await it.
D_MarkLoaded ==
  /\ hpc <= MaxCalls
  /\ \E i \in 0..(Len(sc.pool.puzzles) - 1) :
        /\ tasks' = Append(tasks, CallMark("markPoolIndexLoaded", sc.pool, i, "void"))
        /\ out' = Append(out, [kind |-> "loaded", val |-> i])
  /\ hpc' = hpc + 1
  /\ UNCHANGED <<sc, ui, saverVars, storage>>
  /\ UNCHANGED <<catalog, firstHit, engineVars, mpVars>>

D_MarkSolved ==
  /\ hpc <= MaxCalls
  /\ \E i \in 0..(Len(sc.pool.puzzles) - 1) :
        /\ tasks' = Append(tasks, CallMark("markPoolIndexSolved", sc.pool, i, "void"))
        /\ out' = Append(out, [kind |-> "solved", val |-> i])
  /\ hpc' = hpc + 1
  /\ UNCHANGED <<sc, ui, saverVars, storage>>
  /\ UNCHANGED <<catalog, firstHit, engineVars, mpVars>>

D_ResetProgress ==
  /\ hpc <= MaxCalls
  /\ tasks' = Append(tasks, CallReset("void"))
  /\ out' = Append(out, [kind |-> "reset", val |-> 0])
  /\ hpc' = hpc + 1
  /\ UNCHANGED <<sc, ui, saverVars, storage>>
  /\ UNCHANGED <<catalog, firstHit, engineVars, mpVars>>

InitMarks ==
  /\ EngineIdle
  /\ MakePuzzleIdle
  /\ tape = << >>
  /\ hpc = 1
  /\ sc \in {[script |-> << >>, pool |-> pool] : pool \in TestPools}
  /\ out = << >>
  /\ ui = InitialUi
  /\ SaverIdle
  /\ storage \in {[EmptyStorage EXCEPT ![POOL_PROGRESS_KEY] = raw] :
                    raw \in StoredProgress(sc.pool)}
  /\ tasks = << >>

NextMarks == D_MarkLoaded \/ D_MarkSolved \/ D_ResetProgress \/ PoolProgressStep

SpecMarks == InitMarks /\ [][NextMarks]_vars

\* ------------------------------------------------------------------------
\* The App: start screen, pool loaders, game screen
\* ------------------------------------------------------------------------

createEmptyPlayerBoard == [r \in Idx |-> ZeroRow]

resetGameState(u) ==
  [u EXCEPT !.puzzle = None, !.playerBoard = << >>, !.showSolution = FALSE,
            !.status = NoStatus, !.history = << >>, !.future = << >>]

startGameWithPuzzle(u, p, source) ==
  [u EXCEPT !.puzzle = Some(p), !.puzzleSource = source,
            !.playerBoard = createEmptyPlayerBoard,
            !.history = << >>, !.future = << >>, !.showSolution = FALSE,
            !.isSolved = FALSE, !.status = NoStatus, !.screen = "game"]

\* poolHasRemaining = poolAvailable && poolRemaining > 0
poolHasRemaining(u) ==
  /\ u.pool # None
  /\ Len(u.pool[1].puzzles) > 0
  /\ Len(u.pool[1].puzzles) - u.poolProgressLoadedCount > 0

\* The cycle of a free cell: unknown, berry, marked empty, unknown.
NextVal(current) == IF current = 0 THEN 1 ELSE IF current = 1 THEN -1 ELSE 0

\* A press that pushes no snapshot onto history.
handleCellPress_NoHistory(u, r, c) ==
  IF u.puzzle = None \/ u.puzzle[1].puzzleClues[r][c] # None \/ u.showSolution
  THEN u
  ELSE [u EXCEPT !.status = NoStatus,
                 !.playerBoard[r][c] = NextVal(@),
                 !.future = << >>]

handleCellPress(u, r, c) ==
  IF u.puzzle = None \/ u.puzzle[1].puzzleClues[r][c] # None \/ u.showSolution
  THEN u
  ELSE [u EXCEPT !.status = NoStatus,
                 !.playerBoard[r][c] = NextVal(@),
                 !.history = Append(@, u.playerBoard),
                 !.future = << >>]

\* checkSolution's loop: the berries of the player are those of the solution.
allMatch(u) ==
  \A r \in Idx, c \in Idx :
     (u.puzzle[1].solution[r][c] = 1) <=> (u.playerBoard[r][c] = 1)

\* A user event is handled: the JavaScript thread is free, and the scenario
\* has taps left.
Tap ==
  /\ epc = "idle"
  /\ hpc \in 1..MaxTaps
  /\ hpc' = hpc + 1

\* The two mount effects: validatePoolOrThrow(RAW_POOL_JSON) and setPool,
\* then loadPoolProgress(pool) for the count shown on the start screen.
A_Mount ==
  /\ hpc = 0
  /\ hpc' = 1
  /\ IF validatePoolOrThrow(sc.pool).kind = "pool"
     THEN /\ ui' = [ui EXCEPT !.pool = Some(sc.pool)]
          /\ tasks' = Append(tasks, Task("getItem", POOL_PROGRESS_KEY, None,
                                         "setPoolProgressLoadedCount",
                                         [poolVersion |-> getPoolVersion(sc.pool),
                                          index |-> None, progress |-> None,
                                          caller |-> "effect"]))
     ELSE UNCHANGED <<ui, tasks>>
  /\ UNCHANGED <<sc, out, saverVars, storage>>
  /\ UNCHANGED <<catalog, firstHit, engineVars, mpVars>>

T_PoolCount ==
  /\ Completes("setPoolProgressLoadedCount")
  /\ ui' = [ui EXCEPT !.poolProgressLoadedCount =
              Len(loadPoolProgress(storage[POOL_PROGRESS_KEY],
                                   Head(tasks).ctx.poolVersion).loaded)]
  /\ tasks' = Tail(tasks)
  /\ UNCHANGED <<saverVars, storage>>
  /\ UNCHANGED <<catalog, firstHit, engineVars, mpVars, callerVars>>

\* loadNextPuzzleFromPool / loadRandomPuzzleFromPool up to the await of
\* loadPoolProgress.  The buttons are on the start screen, disabled by
\* poolDisabled.
A_LoadFromPool ==
  /\ Tap
  /\ ui.screen = "start"
  /\ poolHasRemaining(ui)
  /\ ~ui.isGenerating
  /\ \E fname \in {"loadNextPuzzleFromPool", "loadRandomPuzzleFromPool"} :
        tasks' = Append(tasks, Task("getItem", POOL_PROGRESS_KEY, None, fname,
                                    [poolVersion |-> getPoolVersion(ui.pool[1]),
                                     index |-> None, progress |-> None,
                                     caller |-> fname]))
  /\ ui' = [ui EXCEPT !.isGenerating = TRUE, !.status = NoStatus]
  /\ UNCHANGED <<sc, out, saverVars, storage>>
  /\ UNCHANGED <<catalog, firstHit, engineVars, mpVars>>

\* The loader after loadPoolProgress: the index, the decoded entry, the call
\* of solveOneFromClueGrid (whose search runs before anything else does).
T_LoadPicked ==
  /\ epc = "idle"
  /\ tasks # << >>
  /\ Head(tasks).then \in {"loadNextPuzzleFromPool", "loadRandomPuzzleFromPool"}
  /\ LET t == Head(tasks)
         pool == ui.pool[1]
         progress == loadPoolProgress(storage[POOL_PROGRESS_KEY], t.ctx.poolVersion)
         picks == IF t.then = "loadNextPuzzleFromPool"
                  THEN {getNextNotLoadedIndex(pool, progress)}
                  ELSE getRandomNotLoadedIndex(pool, progress)
     IN \E idx \in picks :
          IF idx = None
          THEN /\ ui' = [ui EXCEPT !.status = [text |-> "Pool exhausted.",
                                               ok |-> None, idx |-> None],
                                   !.isGenerating = FALSE]
               /\ tasks' = Tail(tasks)
               /\ UNCHANGED <<out, catalog, firstHit, engineVars>>
          ELSE \E grid \in {decodeClues81ToGrid_App(pool.puzzles[idx[1] + 1].clues81)} :
                 IF grid.kind = "grid"
                 THEN /\ CallSolveOne(grid.val)
                      /\ tasks' = <<[t EXCEPT !.then = "solveOneFromClueGrid",
                                              !.ctx.index = idx[1]]>> \o Tail(tasks)
                      /\ out' = Append(out, [kind |-> "picked", val |-> idx[1]])
                      /\ UNCHANGED ui
                 ELSE \* the catch and the finally
                      /\ ui' = [ui EXCEPT !.status = [text |-> "Failed to load.",
                                                      ok |-> Some(FALSE), idx |-> None],
                                          !.isGenerating = FALSE]
                      /\ tasks' = Tail(tasks)
                      /\ UNCHANGED <<out, catalog, firstHit, engineVars>>
  /\ UNCHANGED <<hpc, sc, saverVars, storage>>
  /\ UNCHANGED mpVars

\* solveOneFromClueGrid has returned to the loader: the skip of an entry
\* without a solution, or the start of the game; both call
\* markPoolIndexLoaded.
T_LoadSolved ==
  /\ epc = "ret"
  /\ tasks # << >>
  /\ Head(tasks).then = "solveOneFromClueGrid"
  /\ epc' = "idle"
  /\ fn' = "idle"
  /\ LET idx == Head(tasks).ctx.index
         pool == ui.pool[1]
         puzzleClues == decodeClues81ToGrid_App(pool.puzzles[idx + 1].clues81).val
     IN IF ret.kind = "null"
        THEN /\ ui' = [ui EXCEPT !.status = [text |-> "could not be solved. Skipping.",
                                             ok |-> Some(FALSE), idx |-> Some(idx)]]
             /\ tasks' = Append(Tail(tasks),
                                CallMark("markPoolIndexLoaded", pool, idx, "skipped"))
             /\ out' = Append(out, [kind |-> "skipped", val |-> idx])
        ELSE /\ ui' = [startGameWithPuzzle(ui, [puzzleClues |-> puzzleClues,
                                                solution |-> ret.val], "pool")
                         EXCEPT !.currentPoolIndex = Some(idx)]
             /\ tasks' = Append(Tail(tasks),
                                CallMark("markPoolIndexLoaded", pool, idx, "started"))
             /\ out' = Append(out, [kind |-> "started", val |-> idx])
  /\ UNCHANGED <<catalog, firstHit, pats, clueList, maxSolutions, colCounts, blockCounts,
                 boardRows, iters, solutions, ret, did>>
  /\ UNCHANGED <<hpc, sc, saverVars, storage>>
  /\ UNCHANGED mpVars

\* handleResetPoolProgress up to the await of resetPoolProgress.
A_ResetPool ==
  /\ Tap
  /\ ui.screen = "start"
  /\ ~ui.isGenerating
  /\ ui.pool # None
  /\ ui' = [ui EXCEPT !.status = NoStatus]
  /\ tasks' = Append(tasks, CallReset("handleResetPoolProgress"))
  /\ out' = Append(out, [kind |-> "reset", val |-> 0])
  /\ UNCHANGED <<sc, saverVars, storage>>
  /\ UNCHANGED <<catalog, firstHit, engineVars, mpVars>>

\* The player enters the solution: a press on the first cell, in row-major
\* order, that holds a berry of the solution and is not marked as one.
A_PressBerry ==
  /\ epc = "idle"
  /\ ui.screen = "game"
  /\ ui.puzzle # None
  /\ LET open == {x \in 0..(N * N - 1) :
                    /\ ui.puzzle[1].solution[x \div N][x % N] = 1
                    /\ ui.playerBoard[x \div N][x % N] # 1}
     IN /\ open # {}
        /\ \E x \in open :
              /\ \A y \in open : x <= y
              /\ ui' = handleCellPress(ui, x \div N, x % N)
  /\ UNCHANGED <<saverVars, storage, tasks>>
  /\ UNCHANGED <<catalog, firstHit, engineVars, mpVars, callerVars>>

\* checkSolution; markPoolIndexSolved is started and not awaited.
A_Check ==
  /\ Tap
  /\ ui.screen = "game"
  /\ ~ui.isGenerating
  /\ ui.puzzle # None
  /\ IF allMatch(ui)
     THEN /\ ui' = [ui EXCEPT !.isSolved = TRUE,
                              !.status = [text |-> "Correct! Puzzle solved.",
                                          ok |-> Some(TRUE), idx |-> None]]
          /\ tasks' = IF ui.puzzleSource = "pool" /\ ui.currentPoolIndex # None
                         /\ ui.pool # None
                      THEN Append(tasks, CallMark("markPoolIndexSolved", ui.pool[1],
                                                  ui.currentPoolIndex[1], "void"))
                      ELSE tasks
     ELSE /\ ui' = [ui EXCEPT !.status = [text |-> "Not solved yet.",
                                          ok |-> Some(FALSE), idx |-> None]]
          /\ UNCHANGED tasks
  /\ UNCHANGED <<sc, out, saverVars, storage>>
  /\ UNCHANGED <<catalog, firstHit, engineVars, mpVars>>

\* newGame; clearSavedGame is started and not awaited.
A_NewGame ==
  /\ Tap
  /\ ui.screen = "game"
  /\ ~ui.isGenerating
  /\ ui' = [resetGameState(ui) EXCEPT !.currentPoolIndex = None,
                                      !.isSolved = FALSE, !.screen = "start"]
  /\ tasks' = Append(tasks, Task("removeItem", STORAGE_KEY, None, "clearSavedGame",
                                 [poolVersion |-> None, index |-> None,
                                  progress |-> None, caller |-> "void"]))
  /\ out' = Append(out, [kind |-> "newGame", val |-> 0])
  /\ UNCHANGED <<sc, saverVars, storage>>
  /\ UNCHANGED <<catalog, firstHit, engineVars, mpVars>>

\* The removeItem of clearSavedGame completes.
T_Cleared ==
  /\ Completes("clearSavedGame")
  /\ storage' = StorageAfter(Head(tasks))
  /\ tasks' = Tail(tasks)
  /\ UNCHANGED <<ui, saverVars>>
  /\ UNCHANGED <<catalog, firstHit, engineVars, mpVars, callerVars>>

\* The App with a pool file, an AsyncStorage left by earlier runs, and a
\* player who takes puzzles from the pool and solves them.  The autosave of
\* the game screen writes another key and is left to SpecPlay.
InitApp ==
  /\ EngineIdle
  /\ MakePuzzleIdle
  /\ tape = << >>
  /\ hpc = 0
  /\ sc \in {[script |-> << >>, pool |-> pool] :
               pool \in TestPools \cup {[p EXCEPT !.version = 2] : p \in TestPools}}
  /\ out = << >>
  /\ ui = InitialUi
  /\ SaverIdle
  /\ storage \in {[EmptyStorage EXCEPT ![POOL_PROGRESS_KEY] = raw] :
                    raw \in StoredProgress(sc.pool)}
  /\ tasks = << >>

NextApp ==
  \/ A_Mount
  \/ T_PoolCount
  \/ A_LoadFromPool
  \/ T_LoadPicked
  \/ SolveOneStep
  \/ T_LoadSolved
  \/ A_ResetPool
  \/ A_PressBerry
  \/ A_Check
  \/ A_NewGame
  \/ T_Cleared
  \/ PoolProgressStep

SpecApp == InitApp /\ [][NextApp]_vars

\* ------------------------------------------------------------------------
\* The game screen: the board handlers, the autosave, the saved game
\* ------------------------------------------------------------------------

clearBoard(u) ==
  IF u.puzzle = None
  THEN u
  ELSE [u EXCEPT !.playerBoard = createEmptyPlayerBoard,
                 !.history = Append(@, u.playerBoard),
                 !.future = << >>,
                 !.status = NoStatus]

undo(u) ==
  IF u.puzzle = None \/ u.history = << >>
  THEN u
  ELSE [u EXCEPT !.playerBoard = u.history[Len(u.history)],
                 !.history = SubSeq(@, 1, Len(@) - 1),
                 !.future = Append(@, u.playerBoard),
                 !.status = NoStatus]

redo(u) ==
  IF u.puzzle = None \/ u.future = << >>
  THEN u
  ELSE [u EXCEPT !.playerBoard = u.future[Len(u.future)],
                 !.future = SubSeq(@, 1, Len(@) - 1),
                 !.history = Append(@, u.playerBoard),
                 !.status = NoStatus]

toggleShowSolution(u) ==
  [u EXCEPT !.showSolution = ~@, !.status = NoStatus]

\* The SavedGameV1 the autosave effect builds; now is Date.now().
SavedGame(u, now) ==
  [v |-> 1, savedAt |-> now, puzzle |-> u.puzzle[1], playerBoard |-> u.playerBoard,
   history |-> u.history, future |-> u.future, useDense |-> FALSE]

\* A scheduleSave that sets a new timeout without clearing the old one.
scheduleSave_NoClear(game) ==
  [pending |-> Some(game),
   timer |-> Some(CHOOSE id \in 1..(Cardinality(timeouts) + 1) : id \notin timeouts),
   timeouts |-> timeouts \cup
                  {CHOOSE id \in 1..(Cardinality(timeouts) + 1) : id \notin timeouts}]

\* scheduleSave(game): pending = game; clearTimeout(timer); timer =
\* setTimeout(..).  The value is the module state and the timeouts after it.
scheduleSave(game) ==
  LET kept == IF timer # None THEN timeouts \ {timer[1]} ELSE timeouts
      id == CHOOSE n \in 1..(Cardinality(kept) + 1) : n \notin kept
  IN [pending |-> Some(game), timer |-> Some(id), timeouts |-> kept \cup {id}]

\* is2D(x, rows, cols), for the arrays of arrays the App builds.
is2D(x, rows, cols) ==
  /\ DOMAIN x = 0..(rows - 1)
  /\ \A r \in DOMAIN x : DOMAIN x[r] = 0..(cols - 1)

\* is3D(x, depthMax, rows, cols)
is3D(x, depthMax, rows, cols) ==
  /\ Len(x) <= depthMax
  /\ \A n \in 1..Len(x) : is2D(x[n], rows, cols)

isPlayerCell(v) == v \in {-1, 0, 1}

\* The depth validateSavedGameV1 allows history and future.
HistoryDepthMax == 1500

validateSavedGameV1(o, n) ==
  /\ o.v = 1
  /\ o.useDense \in BOOLEAN
  /\ is2D(o.puzzle.solution, n, n)
  /\ is2D(o.puzzle.puzzleClues, n, n)
  /\ is2D(o.playerBoard, n, n)
  /\ \A r \in DOMAIN o.playerBoard : \A c \in DOMAIN o.playerBoard[r] :
        isPlayerCell(o.playerBoard[r][c])
  /\ is3D(o.history, HistoryDepthMax, n, n)
  /\ is3D(o.future, HistoryDepthMax, n, n)
  /\ \A i \in 1..Len(o.history) : \A r \in Idx : \A c \in Idx :
        isPlayerCell(o.history[i][r][c])
  /\ \A i \in 1..Len(o.future) : \A r \in Idx : \A c \in Idx :
        isPlayerCell(o.future[i][r][c])

\* loadSavedGame(N) from the point where getItem has returned raw.
loadSavedGame(raw, n) ==
  IF raw = None THEN None
  ELSE IF ~raw[1].parses THEN None
  ELSE IF ~validateSavedGameV1(raw[1].val, n) THEN None
  ELSE Some(raw[1].val)

\* A handler of the game screen has run and the App has rendered with the
\* state next: the autosave effect runs when one of puzzle, playerBoard,
\* history, future is a new value and there is a puzzle.
Handled(event, next) ==
  /\ Tap
  /\ ui' = next
  /\ IF next.puzzle # None
        /\ <<next.puzzle, next.playerBoard, next.history, next.future>>
             # <<ui.puzzle, ui.playerBoard, ui.history, ui.future>>
     THEN \E saver \in {scheduleSave(SavedGame(next, hpc))} :
             /\ timer' = saver.timer
             /\ pending' = saver.pending
             /\ timeouts' = saver.timeouts
             /\ out' = out \o <<event, [kind |-> "scheduleSave", val |-> hpc]>>
     ELSE /\ out' = Append(out, event)
          /\ UNCHANGED saverVars
  /\ UNCHANGED <<sc, storage, tasks>>
  /\ UNCHANGED <<catalog, firstHit, engineVars, mpVars>>

\* The cells the player taps: a free cell with a berry, a free cell without
\* one, a clued cell.
PressCells == {<<0, 0>>, <<N - 1, 0>>, <<1, 0>>}

P_Press ==
  \E cell \in PressCells :
     Handled([kind |-> "press", val |-> cell], handleCellPress(ui, cell[1], cell[2]))

P_Clear == Handled([kind |-> "clear", val |-> 0], clearBoard(ui))

\* undo and redo are called whether or not their buttons are enabled.
P_Undo == Handled([kind |-> "undo", val |-> 0], undo(ui))

P_Redo == Handled([kind |-> "redo", val |-> 0], redo(ui))

P_ToggleShowSolution ==
  Handled([kind |-> "toggle", val |-> 0], toggleShowSolution(ui))

\* A timeout set by scheduleSave fires: its callback, up to the setItem of
\* saveGame, which is not awaited.
TimerFires ==
  /\ epc = "idle"
  /\ \E id \in timeouts : timeouts' = timeouts \ {id}
  /\ pending' = None
  /\ timer' = None
  /\ IF pending # None
     THEN /\ tasks' = Append(tasks, Task("setItem", STORAGE_KEY, JSONstringify(pending[1]),
                                         "saveGame",
                                         [poolVersion |-> None, index |-> None,
                                          progress |-> None, caller |-> "void"]))
          /\ out' = Append(out, [kind |-> "saveGame", val |-> pending[1].savedAt])
     ELSE UNCHANGED <<tasks, out>>
  /\ UNCHANGED <<hpc, sc, ui, storage>>
  /\ UNCHANGED <<catalog, firstHit, engineVars, mpVars>>

\* The setItem of saveGame completes.
T_Saved ==
  /\ Completes("saveGame")
  /\ storage' = StorageAfter(Head(tasks))
  /\ tasks' = Tail(tasks)
  /\ UNCHANGED <<ui, saverVars>>
  /\ UNCHANGED <<catalog, firstHit, engineVars, mpVars, callerVars>>

\* The value of a free cell after n presses on it.
AfterPresses(n) == IF n % 3 = 0 THEN 0 ELSE IF n % 3 = 1 THEN 1 ELSE -1

\* The game screen after n presses on the cell (0, 0) of a new game.
PlayedUi(p, n) ==
  [startGameWithPuzzle(InitialUi, p, "generated") EXCEPT
     !.playerBoard = [createEmptyPlayerBoard EXCEPT ![0][0] = AfterPresses(n)],
     !.history = [i \in 1..n |->
                    [createEmptyPlayerBoard EXCEPT ![0][0] = AfterPresses(i - 1)]]]

\* Puzzles on the game screen: the clues of the first rows of a board.
PlayPuzzles ==
  {[puzzleClues |-> ClueGridOf(PrefixClues(b, 3)), solution |-> b] : b \in TestBoards}

\* A game in progress whose last autosave has been written: a new game, a
\* short one, and, with one tap left to make, games whose history has
\* reached the depth validateSavedGameV1 allows.
InitPlay ==
  /\ EngineIdle
  /\ MakePuzzleIdle
  /\ tape = << >>
  /\ sc \in {[script |-> << >>, puzzle |-> p, presses |-> n] :
               p \in PlayPuzzles,
               n \in {0, 2, HistoryDepthMax - 1, HistoryDepthMax}}
  /\ hpc = IF sc.presses > MaxTaps THEN MaxTaps ELSE 1
  /\ out = << >>
  /\ ui = PlayedUi(sc.puzzle, sc.presses)
  /\ SaverIdle
  /\ storage = [EmptyStorage EXCEPT ![STORAGE_KEY] = Some(JSONstringify(SavedGame(ui, 0)))]
  /\ tasks = << >>

NextPlay ==
  \/ P_Press
  \/ P_Clear
  \/ P_Undo
  \/ P_Redo
  \/ P_ToggleShowSolution
  \/ A_NewGame
  \/ TimerFires
  \/ T_Saved
  \/ T_Cleared

SpecPlay == InitPlay /\ [][NextPlay]_vars

\* ------------------------------------------------------------------------
\* Violation highlighting: computeViolations of gameSave.ts and of App.tsx
\* ------------------------------------------------------------------------

\* The berries (1) and the unknown cells (0) among the cells of a unit.
countLine(board, cells) ==
  [berries |-> Cardinality({x \in cells : board[x[1]][x[2]] = 1}),
   unknown |-> Cardinality({x \in cells : board[x[1]][x[2]] = 0})]

\* A unit rule that flags a unit as soon as it holds its berries.
violatesUnit_Eager(berries, unknown, required) ==
  \/ berries >= required
  \/ berries + unknown < required

violatesUnit(berries, unknown, required) ==
  \/ berries > required
  \/ berries + unknown < required
  \/ unknown = 0 /\ berries # required

\* The unit rule App.tsx writes out in its three loops.
violatesUnit_App(berries, unknown) ==
  berries > 3 \/ (unknown = 0 /\ berries # 3)

BlockCells(b) ==
  ((b \div 3) * 3..(b \div 3) * 3 + 2) \X ((b % 3) * 3..(b % 3) * 3 + 2)

NeighbourCells(r, c) ==
  {<<r + NEIGHBOR_DIRS[d][1], c + NEIGHBOR_DIRS[d][2]>> : d \in InGrid(r, c)}

\* The test both versions apply to a clue: too many berries around it, or
\* too few cells left to reach it.
ClueViolated(board, pz, r, c) ==
  LET clue == pz.puzzleClues[r][c]
      n == countLine(board, NeighbourCells(r, c))
  IN /\ clue # None
     /\ \/ n.berries > clue[1]
        \/ n.berries + n.unknown < clue[1]

\* gameSave.ts: the violation is marked on the clue cell itself.
computeViolations(board, pz) ==
  [row |-> [r \in Idx |->
              LET n == countLine(board, {r} \X Idx)
              IN violatesUnit(n.berries, n.unknown, 3)],
   col |-> [c \in Idx |->
              LET n == countLine(board, Idx \X {c})
              IN violatesUnit(n.berries, n.unknown, 3)],
   block |-> [b \in Idx |->
                LET n == countLine(board, BlockCells(b))
                IN violatesUnit(n.berries, n.unknown, 3)],
   clueArea |-> [r \in Idx |-> [c \in Idx |-> ClueViolated(board, pz, r, c)]]]

\* App.tsx: the violation is marked on the clue cell and on its neighbours.
computeViolations_App(board, pz) ==
  [row |-> [r \in Idx |->
              LET n == countLine(board, {r} \X Idx)
              IN violatesUnit_App(n.berries, n.unknown)],
   col |-> [c \in Idx |->
              LET n == countLine(board, Idx \X {c})
              IN violatesUnit_App(n.berries, n.unknown)],
   block |-> [b \in Idx |->
                LET n == countLine(board, BlockCells(b))
                IN violatesUnit_App(n.berries, n.unknown)],
   clueArea |-> [r \in Idx |-> [c \in Idx |->
                   \/ ClueViolated(board, pz, r, c)
                   \/ \E x \in NeighbourCells(r, c) :
                         ClueViolated(board, pz, x[1], x[2])]]]

D_ComputeViolations ==
  /\ NextCall("computeViolations")
  /\ out' = Append(out, [kind |-> "violations",
                         val |-> <<computeViolations(sc.board, sc.puzzle),
                                   computeViolations_App(sc.board, sc.puzzle)>>])
  /\ hpc' = hpc + 1
  /\ UNCHANGED <<catalog, firstHit, engineVars, mpVars, sc, appVars>>

\* A player board for a solution: the cells numbered from..to - 1 in
\* row-major order are decided, the others unknown.  "both" marks berries
\* and empties as the solution has them, "berries" and "empties" only the
\* ones or the others, "free" leaves the clued cells unknown as the game
\* screen does, "swapped" marks every decided cell wrongly.
MarkedBoard(pz, mode, from, to) ==
  [r \in Idx |-> [c \in Idx |->
     LET berry == pz.solution[r][c] = 1
     IN IF r * N + c < from \/ r * N + c >= to THEN 0
        ELSE IF mode = "free" /\ pz.puzzleClues[r][c] # None THEN 0
        ELSE IF mode = "swapped" THEN (IF berry THEN -1 ELSE 1)
        ELSE IF berry THEN (IF mode = "empties" THEN 0 ELSE 1)
        ELSE IF mode = "berries" THEN 0 ELSE -1]]

ViolationPuzzles ==
  {[puzzleClues |-> ClueGridOf(PrefixClues(b, m)), solution |-> b] :
      b \in TestBoards, m \in {0, 3, N}}

ViolationRanges ==
  {<<0, 0>>, <<0, 1>>, <<0, N>>, <<0, 3 * N>>, <<0, 40>>, <<0, N * N>>,
   <<40, N * N>>, <<3 * N, 6 * N>>, <<10, 12>>}

InitViolations ==
  /\ EngineIdle
  /\ AppIdle
  /\ MakePuzzleIdle
  /\ tape = << >>
  /\ hpc = 1
  /\ sc \in {[script |-> <<"computeViolations">>, puzzle |-> p,
              board |-> MarkedBoard(p, mode, x[1], x[2])] :
               p \in ViolationPuzzles,
               mode \in {"both", "berries", "empties", "free", "swapped"},
               x \in ViolationRanges}
  /\ out = << >>

NextViolations == D_ComputeViolations

SpecViolations == InitViolations /\ [][NextViolations]_vars

\* ------------------------------------------------------------------------
\* What a valid board is, stated without the search's own helpers
\* ------------------------------------------------------------------------

Berries(board, rs, cs) == Cardinality({x \in rs \X cs : board[x[1]][x[2]] = 1})

ExactlyThree(board) ==
  /\ \A r \in Idx : \A c \in Idx : board[r][c] \in {0, 1}
  /\ \A r \in Idx : Berries(board, {r}, Idx) = 3
  /\ \A c \in Idx : Berries(board, Idx, {c}) = 3
  /\ \A br \in 0..2 : \A bc \in 0..2 :
        Berries(board, (3 * br)..(3 * br + 2), (3 * bc)..(3 * bc + 2)) = 3

\* The cells around (r, c): a king's move away, inside the grid.
Around(r, c) ==
  {x \in Idx \X Idx :
     /\ x # <<r, c>>
     /\ x[1] - r \in {-1, 0, 1}
     /\ x[2] - c \in {-1, 0, 1}}

ClueHolds(board, cl) ==
  /\ board[cl.r][cl.c] = 0
  /\ Cardinality({x \in Around(cl.r, cl.c) : board[x[1]][x[2]] = 1}) = cl.v

FullyValid(board, clues) ==
  /\ ExactlyThree(board)
  /\ \A n \in 1..Len(clues) : ClueHolds(board, clues[n])

\* Clue lists no valid board satisfies, recognised without searching.
CluedCols(clues, r) == {c \in Idx : \E n \in 1..Len(clues) : clues[n].r = r /\ clues[n].c = c}

\* A row with more than N - 3 clued cells has no room for 3 berries.
TooManyClued(clues) == \E r \in Idx : Cardinality(CluedCols(clues, r)) > N - 3

\* A value no neighbourhood can reach.
Unreachable(clues) ==
  \E n \in 1..Len(clues) :
     clues[n].v < 0 \/ clues[n].v > Cardinality(Around(clues[n].r, clues[n].c))

\* A row with exactly N - 3 clued cells holds its berries at the other 3.
Forced(clues, r) == Cardinality(CluedCols(clues, r)) = N - 3

\* A clue whose neighbours all lie in forced rows, with another sum there.
Contradicted(clues) ==
  \E n \in 1..Len(clues) :
     LET nb == Around(clues[n].r, clues[n].c)
     IN /\ \A x \in nb : Forced(clues, x[1])
        /\ Cardinality({x \in nb : x[2] \notin CluedCols(clues, x[1])}) # clues[n].v

KnownInfeasible(clues) ==
  TooManyClued(clues) \/ Unreachable(clues) \/ Contradicted(clues)

\* The boards a clue list admits, listed without searching, for clue lists
\* that leave at most one choice in every row but the last two: a berry
\* never sits on a clued cell, so each row is one of the catalog rows that
\* avoid the row's clued cells.
SolutionsOf(clues) ==
  UNION {
    IF \E r \in Idx : cand[r] = {}
    THEN {}
    ELSE UNION {
      {b \in {[r \in Idx |-> IF r = N - 2 THEN ROW_PATTERNS[x[1]]
                             ELSE IF r = N - 1 THEN ROW_PATTERNS[x[2]]
                             ELSE fixed[r]] :
                \* the pairs that bring every column to 3 are tried first
                x \in UNION {
                  {y \in cand[N - 2] \X cand[N - 1] :
                     \A c \in Idx :
                        ROW_PATTERNS[y[1]][c] + ROW_PATTERNS[y[2]][c] = need[c]}
                  : need \in {[c \in Idx |->
                       3 - Cardinality({r \in 0..(N - 3) : fixed[r][c] = 1})]}}} :
         FullyValid(b, clues)}
      : fixed \in {[r \in 0..(N - 3) |-> ROW_PATTERNS[CHOOSE p \in cand[r] : TRUE]]}}
    : cand \in {[r \in Idx |->
                   {p \in 1..NumPatterns :
                      \A c \in CluedCols(clues, r) : ROW_PATTERNS[p][c] = 0}]}}

\* The clue lists SolutionsOf lists the boards of.
FewOpenRows(clues) ==
  \A r \in 0..(N - 3) : Cardinality(CluedCols(clues, r)) >= N - 3

\* The caller has received the value of its n-th call.
Returned(n) == hpc > n /\ Len(out) >= n

\* ------------------------------------------------------------------------
\* Claims
\* ------------------------------------------------------------------------

\* C1: every puzzle makePuzzle returns, dense or not, has exactly one
\* solution: solveCount over the clues of its grid with cap 2 returns 1.
C1_PuzzleIsUnique ==
  (puzzle # None /\ Returned(2)) => (out[2].kind = "count" /\ out[2].val = 1)

C1_Witness ==
  /\ puzzle # None
  /\ Returned(2)
  /\ out[2].val = 1
  /\ Len(puzzle[1].minimised) < Len(clueCells(solution))

\* C2: for every puzzle makePuzzle returns, solveOneFromClueGrid on its clue
\* grid returns a board equal to the puzzle's solution in every cell.
C2_SolveOneGivesSolution ==
  (puzzle # None /\ Returned(3)) =>
     /\ out[3].kind = "board"
     /\ \A r \in Idx : \A c \in Idx : out[3].val[r][c] = puzzle[1].solution[r][c]

C2_Witness ==
  /\ puzzle # None
  /\ Returned(3)
  /\ out[3].kind = "board"
  /\ puzzle[1].puzzleClues # ClueGridOf(clueCells(solution))

\* C3: every board generateBoard returns has exactly 3 berries in every row,
\* every column and every 3x3 block, so checkConstraints accepts it.
C3_GeneratedBoardValid ==
  (fn = "generateBoard" /\ epc = "ret" /\ ret.kind = "board") =>
     (ExactlyThree(ret.val) /\ checkConstraints(ret.val))

C3_Witness ==
  /\ Returned(1)
  /\ out[1].kind = "board"
  /\ ExactlyThree(out[1].val)
  /\ tape[1] # tape[2]

\* C4: the full clue list of a valid board (one clue at every cell without a
\* berry) has exactly one solution with cap 2, and solveOneFromClueGrid on
\* the full grid returns that board.
FullClueScenario ==
  /\ sc.m = N
  /\ sc.alt = "none"
  /\ sc.extra = None
  /\ sc.cap >= 2
  /\ sc.clues = clueCells(sc.base)

C4_FullCluesGiveTheBoard ==
  /\ (FullClueScenario /\ Returned(1)) => out[1].val = 1
  /\ (FullClueScenario /\ Returned(2)) =>
        (out[2].kind = "board" /\ out[2].val = sc.base)

C4_Witness ==
  /\ FullClueScenario
  /\ Returned(2)
  /\ out[1].val = 1
  /\ out[2].kind = "board"

\* C5: adding a clue at a free cell never raises the count: for the same cap,
\* solveCount of the clues plus the extra clue is at most solveCount of the
\* clues.
C5_MoreCluesFewerSolutions ==
  (sc.extra # None /\ Returned(2)) => out[2].val <= out[1].val

C5_Witness ==
  /\ sc.extra # None
  /\ Returned(2)
  /\ out[1].val = sc.cap
  /\ out[2].val < out[1].val

\* C6: densification keeps the puzzle unique: the clues a dense makePuzzle
\* returns contain the minimised clues, add only clues of the solution the
\* minimisation removed, and still have exactly one solution with cap 2.
C6_DenseStaysUnique ==
  (puzzle # None /\ puzzle[1].dense /\ Returned(2)) =>
     /\ \A n \in 1..Len(puzzle[1].minimised) : HasKey(active, puzzle[1].minimised[n])
     /\ \A n \in 1..Len(active) : ClueHolds(puzzle[1].solution, active[n])
     /\ out[2].val = 1

C6_Witness ==
  /\ puzzle # None
  /\ puzzle[1].dense
  /\ Returned(2)
  /\ Len(active) > Len(puzzle[1].minimised)
  /\ out[2].val = 1

\* C7: solveOneFromClueGrid returns null (it does not throw and returns no
\* board) for a clue grid no valid board satisfies: a clue that contradicts
\* the rows the other clues force, a value above the number of neighbours, a
\* row with more than 6 clued cells.
C7_InfeasibleGivesNull ==
  (fn = "solveOne" /\ epc = "ret" /\ KnownInfeasible(clueList)) => ret.kind = "null"

C7_Witness ==
  /\ fn = "solveOne"
  /\ epc = "ret"
  /\ Contradicted(clueList)
  /\ ~Unreachable(clueList)
  /\ ret.kind = "null"

\* C8: every board solveCount counts and every board solveOneFromClueGrid
\* returns is fully valid: 3 berries in every row, column and block, every
\* clue equal to the berries around its cell, no berry on a clued cell.
C8_SuccessIsFullyValid ==
  /\ (fn = "solveCount" /\ did.counted) => FullyValid(clone2D(boardRows), clueList)
  /\ (fn = "solveOne" /\ ret.kind = "board") => FullyValid(ret.val, clueList)

C8_Witness ==
  /\ fn = "solveCount"
  /\ did.counted
  /\ solutions = 2
  /\ Len(clueList) > 0

\* C9: once solveCount's counter has reached maxSolutions, no row pattern is
\* applied to the search state and no clue check is run any more.
C9_StopsAtCap ==
  (fn = "solveCount" /\ maxSolutions > 0 /\ solutions >= maxSolutions) =>
     (~did.applied /\ ~did.checked)

\* C10: with no clue at all, solveCount returns the cap, for every cap >= 2.
NoClueScenario == sc.clues = << >> /\ sc.extra = None /\ sc.cap >= 2

C10_NoCluesReachCap ==
  (NoClueScenario /\ Returned(1)) => (out[1].kind = "count" /\ out[1].val = sc.cap)

C10_Witness ==
  /\ NoClueScenario
  /\ Returned(1)
  /\ sc.cap > 2
  /\ out[1].val = sc.cap

\* C11: computeClues is total and pure: on every 0/1 board each value is the
\* number of berries on the in-grid cells a king's move away (the cell itself
\* not counted), a second call on the same board gives the same matrix, and
\* the empty board gives the all-zero matrix.
C11_ComputeCluesCountsNeighbours ==
  /\ \A n \in 1..Len(out) :
        /\ out[n].kind = "clues"
        /\ \A r \in Idx : \A c \in Idx :
              out[n].val[r][c] =
                Cardinality({x \in Around(r, c) : sc.board[x[1]][x[2]] = 1})
  /\ Len(out) = 2 => out[1] = out[2]
  /\ (Len(out) >= 1 /\ sc.board = BoardOfCells({})) =>
        out[1].val = [r \in Idx |-> [c \in Idx |-> 0]]

C11_Witness ==
  /\ Len(out) = 2
  /\ sc.board[0][0] = 1
  /\ sc.board[8][8] = 1
  /\ out[2].val[0][1] = 1
  /\ out[2].val[8][7] = 1
  /\ out[2].val[4][4] = 0

\* A flat clue array as the pool format defines it: 81 entries, each -1 or
\* in 0..8.
WellFormed81(a) ==
  /\ Len(a) = 81
  /\ \A i \in 1..Len(a) : a[i] \in ({-1} \cup (0..8))

\* The grid a well-formed array stands for.
GridOf81(a) ==
  [r \in 0..8 |-> [c \in 0..8 |->
     IF a[9 * r + c + 1] = -1 THEN None ELSE Some(a[9 * r + c + 1])]]

\* C12: every decoder of the repository fails with a validation error on an
\* array whose length is not 81 or that holds an entry outside {-1, 0..8},
\* and decodes a well-formed array to the grid with null for -1 and the
\* entry's value elsewhere; the pool validator rejects the same arrays.
C12_MalformedArraysFail ==
  \A n \in 1..Len(out) :
     /\ out[n].kind \in {"grid", "error", "pool"}
     /\ ~WellFormed81(sc.clues81) => out[n].kind = "error"
     /\ (WellFormed81(sc.clues81) /\ sc.script[n] = "validatePool") => out[n].kind = "pool"
     /\ (WellFormed81(sc.clues81) /\ sc.script[n] # "validatePool") =>
           out[n] = [kind |-> "grid", val |-> GridOf81(sc.clues81)]

\* C13: the clues of every puzzle makePuzzle returns agree with its solution:
\* every clued cell of the grid is a cell of the solution without a berry and
\* holds the number of berries around it, and every cell outside the active
\* list is null; the active list has that property after the minimisation and
\* after the dense steps.
C13_CluesMatchSolution ==
  /\ (mp = "minimised" /\ epc = "idle") =>
        \A n \in 1..Len(active) : ClueHolds(solution, active[n])
  /\ (puzzle # None /\ hpc = 2 /\ epc = "idle") =>
        /\ \A n \in 1..Len(active) : ClueHolds(puzzle[1].solution, active[n])
        /\ \A r \in Idx : \A c \in Idx :
              LET g == puzzle[1].puzzleClues[r][c]
              IN IF \E n \in 1..Len(active) : active[n].r = r /\ active[n].c = c
                 THEN /\ g # None
                      /\ ClueHolds(puzzle[1].solution, [r |-> r, c |-> c, v |-> g[1]])
                 ELSE g = None

C13_Witness ==
  /\ puzzle # None
  /\ hpc = 2
  /\ epc = "idle"
  /\ puzzle[1].dense
  /\ Len(active) >= MIN_DENSE_CLUES
  /\ \E r \in Idx : \E c \in Idx : puzzle[1].puzzleClues[r][c] # None

\* C14: generateBoard terminates for every choice of the shuffles, and it
\* ends by returning a board, not by throwing the generation failure:
\* every call of generateBoard leads to the caller holding a board.
C14_GenerateBoardReturns ==
  (fn = "generateBoard") ~> (Returned(1) /\ out[1].kind = "board")

C14_Witness ==
  /\ Returned(1)
  /\ out[1].kind = "board"
  /\ tape[1][1] = "const"
  /\ fn = "idle"

\* C15: without densification the returned clue set is locally minimal:
\* every count of the returned clues with one clue taken off is not 1 (it is
\* 2, the cap: the rest no longer determines the board).
C15_LocallyMinimal ==
  (puzzle # None /\ ~puzzle[1].dense) =>
     \A n \in (Len(sc.script) + 1)..Len(out) :
        out[n].kind = "count" /\ out[n].val # 1 /\ out[n].val = 2

C15_Witness ==
  /\ puzzle # None
  /\ ~puzzle[1].dense
  /\ Len(active) < Len(clueCells(solution))
  /\ Len(out) > Len(sc.script)
  /\ out[Len(sc.script) + 1].val = 2

\* C16: in dense mode every one of the nine 3x3 blocks of the returned clue
\* grid holds at least one clue.
C16_DenseCoversBlocks ==
  (puzzle # None /\ puzzle[1].dense) =>
     \A br \in 0..2 : \A bc \in 0..2 :
        \E r \in Idx : \E c \in Idx :
           /\ r \div 3 = br
           /\ c \div 3 = bc
           /\ puzzle[1].puzzleClues[r][c] # None

\* A dense puzzle whose minimised clue list left some block without a clue.
C16_Witness ==
  /\ puzzle # None
  /\ puzzle[1].dense
  /\ \E br \in 0..2 : \E bc \in 0..2 :
        \A n \in 1..Len(puzzle[1].minimised) :
           ~InBlock(puzzle[1].minimised[n], br, bc)
  /\ Len(out) = 1

\* C17: in dense mode the returned grid holds at least MIN_DENSE_CLUES clues,
\* or all the clues of the solution when the removed pool ran out first; and
\* no cell was added twice: the grid has as many clued cells as the active
\* list has entries.
C17_DenseFloor ==
  (puzzle # None /\ puzzle[1].dense) =>
     /\ \/ Len(active) >= MIN_DENSE_CLUES
        \/ Len(active) = Len(clueCells(solution))
     /\ Cardinality({x \in Idx \X Idx : puzzle[1].puzzleClues[x[1]][x[2]] # None})
          = Len(active)

\* A dense puzzle whose floor loop had clues to restore.
C17_Witness ==
  /\ puzzle # None
  /\ puzzle[1].dense
  /\ Len(CoverBlocks(0, [active |-> puzzle[1].minimised,
                         removed |-> Removed(clueCells(solution),
                                             puzzle[1].minimised)]).active)
       < MIN_DENSE_CLUES
  /\ Len(active) = MIN_DENSE_CLUES

\* The rows built at module load are pairwise distinct 0/1 vectors over the
\* 9 columns with exactly 3 ones each.
DistinctThreeOnes ==
  \A p \in 1..NumPatterns :
     /\ DOMAIN ROW_PATTERNS[p] = Idx
     /\ \A c \in Idx : ROW_PATTERNS[p][c] \in {0, 1}
     /\ Cardinality({c \in Idx : ROW_PATTERNS[p][c] = 1}) = 3
     /\ \A q \in 1..NumPatterns : ROW_PATTERNS[p] = ROW_PATTERNS[q] => p = q

\* C18: the catalog holds exactly 84 pairwise distinct rows of 9 cells, each
\* 0 or 1, with exactly 3 ones; and no call of makePuzzle, solveCount,
\* solveOneFromClueGrid or generateBoard changes which rows it holds or their
\* order.
C18_CatalogReadOnly ==
  /\ Len(catalog) = 84
  /\ catalog = [p \in 1..NumPatterns |-> p]
  /\ DistinctThreeOnes

\* makePuzzle, solveCount, solveOneFromClueGrid and generateBoard have all
\* returned, in that order.
C18_Witness ==
  /\ Len(out) >= 4
  /\ out[1].kind = "puzzle"
  /\ out[2].kind = "count"
  /\ out[3].kind = "board"
  /\ out[4].kind = "board"
  /\ catalog[1] = 1

\* C19: the generator's pruning rules never reject a row prefix of a valid
\* board: when every row's shuffle puts the row of a valid board first, no
\* loop of backtrack moves on to a second pattern, and generateBoard returns
\* that board.
C19_ValidPrefixesPass ==
  (tape[1][1] = "front") =>
     LET target == [r \in Idx |-> ROW_PATTERNS[tape[r + 1][2] + 1]]
     IN /\ ExactlyThree(target)
        /\ \A n \in 1..Len(iters) : iters[n] = 1
        /\ Returned(1) => out[1] = [kind |-> "board", val |-> target]

\* The board of rows {0,3,6}, {1,4,7}, {2,5,8} was proposed and returned.
C19_Witness ==
  /\ tape[1][1] = "front"
  /\ Returned(1)
  /\ out[1].kind = "board"
  /\ out[1].val = DiagonalBoard

\* C20: solveCount is exact up to the cap: its counter stays within
\* [0, cap], and for the clue lists whose boards can be listed the value of
\* either count of the scenario is min(cap, number of boards with 3 berries in
\* every row, column and block, no berry on a clued cell and every clue equal
\* to its neighbour count).
C20_CountIsExact ==
  /\ (fn = "solveCount") => solutions \in 0..maxSolutions
  /\ (hpc = 2 /\ epc = "idle" /\ FewOpenRows(CallerClues(FALSE))) =>
        /\ out[1].kind = "count"
        /\ out[1].val = Min(sc.cap, Cardinality(SolutionsOf(CallerClues(FALSE))))
  /\ (hpc = 3 /\ epc = "idle" /\ sc.script[2] = "solveCountExtra"
        /\ FewOpenRows(CallerClues(TRUE))) =>
        /\ out[2].kind = "count"
        /\ out[2].val = Min(sc.cap, Cardinality(SolutionsOf(CallerClues(TRUE))))

\* A clue list with several boards and a cap below their number, and the
\* count has returned: rows 0..6 of the diagonal board are clued, 8 boards
\* fit.
C20_Witness ==
  /\ hpc = 2
  /\ epc = "idle"
  /\ sc.m = N - 2
  /\ sc.extra = None
  /\ sc.alt = "none"
  /\ sc.cap = 2
  /\ out[1].val = 2
  /\ Cardinality(SolutionsOf(sc.clues)) > 2


\* C21: solveOneFromClueGrid agrees with solveCount.  For a cap of at least
\* 1, the count of a clue list is at least 1 exactly when
\* solveOneFromClueGrid of the same clues returns a board and not null, and
\* the board it returns is the first board the count counted.
C21_ModesAgree ==
  (hpc = Len(sc.script) + 1 /\ epc = "idle" /\ sc.cap >= 1) =>
     LET cnt == out[Len(sc.script) - 1]
         one == out[Len(sc.script)]
     IN /\ cnt.kind = "count"
        /\ (cnt.val >= 1) <=> (one.kind = "board")
        /\ (cnt.val = 0) <=> (one.kind = "null")
        /\ (cnt.val = 0) <=> (firstHit = None)
        /\ (one.kind = "board") => one.val = clone2D(firstHit[1])

\* Both calls have returned for a clue list with several boards: the count
\* reached 2 and solveOneFromClueGrid returned a board.
C21_Witness ==
  /\ hpc = Len(sc.script) + 1
  /\ epc = "idle"
  /\ sc.cap >= 2
  /\ out[Len(sc.script) - 1].val = 2
  /\ out[Len(sc.script)].kind = "board"
  /\ firstHit # None


\* C23: writing a clue grid and reading it back gives the same grid: for a
\* 9 x 9 grid of null or 0..8, encodeCluesTo81 of it passes validateClues81
\* and decodeClues81ToGrid of the array, with N = 9, is the grid.
C23_EncodeDecodeRoundTrip ==
  (sc.script = <<"roundTrip">> /\ Returned(1)) =>
     /\ out[1].val[1].kind = "ok"
     /\ out[1].val[2] = [kind |-> "grid", val |-> sc.grid]

\* A grid that holds null, 0 and 8 has been written and read back.
C23_Witness ==
  /\ sc.script = <<"roundTrip">>
  /\ Returned(1)
  /\ \E r1, r2, r3 \in Idx, c1, c2, c3 \in Idx :
        /\ sc.grid[r1][c1] = None
        /\ sc.grid[r2][c2] = Some(0)
        /\ sc.grid[r3][c3] = Some(8)


\* C24: no mark is lost.  Once every call of markPoolIndexLoaded and
\* markPoolIndexSolved has completed, and resetPoolProgress was not called,
\* the stored progress holds every index the calls marked, however the calls
\* were interleaved.
C24_NoMarkLost ==
  (tasks = << >> /\ \A n \in 1..Len(out) : out[n].kind \in {"loaded", "solved"}) =>
     \A n \in 1..Len(out) :
        LET stored == loadPoolProgress(storage[POOL_PROGRESS_KEY],
                                       getPoolVersion(sc.pool))
            list == IF out[n].kind = "loaded" THEN stored.loaded ELSE stored.solved
        IN \E m \in 1..Len(list) : list[m] = out[n].val


\* C22: an entry without a solution is skipped for good.  When
\* solveOneFromClueGrid returned null for a pool entry, the App has started
\* no game (it is still on the start screen without a puzzle), it shows the
\* failure for that index, and once the loader has finished the index is
\* stored as loaded; neither loader picks an index it has skipped again
\* unless the pool progress was reset in between.
C22_UnsolvableEntrySkipped ==
  /\ \A n \in 1..Len(out) : \A m \in (n + 1)..Len(out) :
        (out[n].kind = "skipped" /\ out[m].kind = "picked" /\ out[m].val = out[n].val)
           => \E i \in n..m : out[i].kind = "reset"
  /\ (ui.status.idx # None) =>
        /\ ui.status.ok = Some(FALSE)
        /\ ui.screen = "start"
        /\ ui.puzzle = None
        /\ ~ui.isGenerating =>
              \E n \in 1..Len(loadPoolProgress(storage[POOL_PROGRESS_KEY],
                                               getPoolVersion(ui.pool[1])).loaded) :
                 loadPoolProgress(storage[POOL_PROGRESS_KEY],
                                  getPoolVersion(ui.pool[1])).loaded[n] = ui.status.idx[1]

\* An entry was skipped, a later run of a loader picked an entry with no
\* reset in between, skipped it too, and has finished.
C22_Witness ==
  /\ \E n \in 1..Len(out) : \E m \in (n + 1)..Len(out) :
        /\ out[n].kind = "skipped"
        /\ out[m].kind = "picked"
        /\ \A i \in n..m : out[i].kind # "reset"
  /\ ui.status.idx # None
  /\ ~ui.isGenerating


\* C25: a cleared game stays cleared.  When newGame was the last of the
\* calls of scheduleSave and newGame, and the removeItem of its
\* clearSavedGame has completed, no saved game is stored: a save scheduled
\* before the clear does not write the abandoned game back.
C25_ClearedGameStaysAbsent ==
  LET ev == SelectSeq(out, LAMBDA e : e.kind \in {"scheduleSave", "newGame"})
  IN (/\ ev # << >>
      /\ ev[Len(ev)].kind = "newGame"
      /\ \A n \in 1..Len(tasks) : tasks[n].then # "clearSavedGame")
        => storage[STORAGE_KEY] = None

\* C26: the debounced saver is last-write-wins.  At most one timeout is
\* live, and it is the one timer holds; every saveGame follows a
\* scheduleSave directly (one save per burst) and saves the game of that
\* last call; once no timeout is live, timer and pending are null and the
\* last burst has been saved; while one is live, pending is the game of the
\* last call.
C26_LastWriteWins ==
  LET ev == SelectSeq(out, LAMBDA e : e.kind \in {"scheduleSave", "saveGame"})
  IN /\ Cardinality(timeouts) <= 1
     /\ (timer # None) => (timeouts = {timer[1]})
     /\ \A n \in 1..Len(ev) :
           (ev[n].kind = "saveGame") =>
              /\ n > 1
              /\ ev[n - 1].kind = "scheduleSave"
              /\ ev[n - 1].val = ev[n].val
     /\ (timeouts = {}) =>
           /\ timer = None
           /\ pending = None
           /\ (ev # << >>) => (ev[Len(ev)].kind = "saveGame")
     /\ (timeouts # {}) =>
           /\ pending # None
           /\ ev # << >>
           /\ ev[Len(ev)] = [kind |-> "scheduleSave", val |-> pending[1].savedAt]

\* A burst of two scheduleSave calls has been saved by one saveGame, and
\* the saver is idle.
C26_Witness ==
  LET ev == SelectSeq(out, LAMBDA e : e.kind \in {"scheduleSave", "saveGame"})
  IN /\ Len(ev) >= 3
     /\ ev[Len(ev)].kind = "saveGame"
     /\ ev[Len(ev) - 1].kind = "scheduleSave"
     /\ ev[Len(ev) - 2].kind = "scheduleSave"
     /\ timer = None
     /\ pending = None
     /\ timeouts = {}

\* C27: every autosaved game loads back.  Every text saveGame writes, in
\* flight or stored, is read by loadSavedGame(9) as the game that was saved,
\* never as null, whatever presses, clears, undos and redos led to it.
C27_SavedGameLoadsBack ==
  /\ \A n \in 1..Len(tasks) :
        (tasks[n].then = "saveGame") =>
           loadSavedGame(Some(tasks[n].val), N) = Some(tasks[n].val.val)
  /\ (storage[STORAGE_KEY] # None) => (loadSavedGame(storage[STORAGE_KEY], N) # None)

\* C28: the board handlers keep history and future as undo stacks.  A press
\* on a free cell (or a clear) pushes the board it replaces onto history and
\* empties future; undo pops history into the board and pushes the board it
\* replaces onto future, and redo does the reverse, so each takes back the
\* other; undo with an empty history, redo with an empty future, a press on
\* a clued cell or while the solution is shown, and any of them without a
\* puzzle, change nothing.
C28_UndoRedoStacks ==
  [][(Len(out') > Len(out)
      /\ out'[Len(out) + 1].kind \in {"press", "clear", "undo", "redo"}) =>
       LET e == out'[Len(out) + 1]
       IN IF ui.puzzle = None
          THEN ui' = ui
          ELSE CASE e.kind = "press" ->
                      IF ui.puzzle[1].puzzleClues[e.val[1]][e.val[2]] = None
                         /\ ~ui.showSolution
                      THEN /\ ui'.history = Append(ui.history, ui.playerBoard)
                           /\ ui'.future = << >>
                           /\ \A r \in Idx, c \in Idx :
                                 ui'.playerBoard[r][c] =
                                    IF <<r, c>> # e.val THEN ui.playerBoard[r][c]
                                    ELSE IF ui.playerBoard[r][c] = 0 THEN 1
                                    ELSE IF ui.playerBoard[r][c] = 1 THEN -1 ELSE 0
                      ELSE ui' = ui
                 [] e.kind = "clear" ->
                      /\ ui'.history = Append(ui.history, ui.playerBoard)
                      /\ ui'.future = << >>
                      /\ \A r \in Idx, c \in Idx : ui'.playerBoard[r][c] = 0
                 [] e.kind = "undo" ->
                      IF ui.history = << >>
                      THEN ui' = ui
                      ELSE /\ ui'.playerBoard = ui.history[Len(ui.history)]
                           /\ ui'.history \o <<ui'.playerBoard>> = ui.history
                           /\ ui'.future = Append(ui.future, ui.playerBoard)
                 [] e.kind = "redo" ->
                      IF ui.future = << >>
                      THEN ui' = ui
                      ELSE /\ ui'.playerBoard = ui.future[Len(ui.future)]
                           /\ ui'.future \o <<ui'.playerBoard>> = ui.future
                           /\ ui'.history = Append(ui.history, ui.playerBoard)]_vars

\* A press on a free cell was undone and redone: the board holds the berry
\* again, history holds the board before the press, future is empty.
C28_Witness ==
  /\ Len(out) >= 3
  /\ out[Len(out)].kind = "scheduleSave"
  /\ \E n \in 1..Len(out) : \E m \in (n + 1)..Len(out) : \E l \in (m + 1)..Len(out) :
        /\ out[n] = [kind |-> "press", val |-> <<0, 0>>]
        /\ out[m].kind = "undo"
        /\ out[l].kind = "redo"
  /\ sc.presses = 0
  /\ ui.playerBoard[0][0] = 1
  /\ Len(ui.history) = 1
  /\ ui.future = << >>


\* C29: violation highlighting has no false alarm.  For a puzzle whose clues
\* are those of its solution and a player board consistent with the solution
\* (every 1 on a berry, every -1 off the berries), computeViolations, in the
\* version of gameSave.ts and in the version of App.tsx, flags no row, no
\* column, no block and no clue area; the completed solution is clean.
C29_NoFalseAlarm ==
  (/\ out # << >>
   /\ \A r \in Idx, c \in Idx :
         /\ (sc.board[r][c] = 1) => (sc.puzzle.solution[r][c] = 1)
         /\ (sc.board[r][c] = -1) => (sc.puzzle.solution[r][c] # 1)
         /\ (sc.puzzle.puzzleClues[r][c] # None) =>
               (sc.puzzle.puzzleClues[r][c][1] = computeClues(sc.puzzle.solution)[r][c]))
    => \A n \in 1..2 : \A r \in Idx, c \in Idx :
          /\ ~out[1].val[n].row[r]
          /\ ~out[1].val[n].col[c]
          /\ ~out[1].val[n].block[r]
          /\ ~out[1].val[n].clueArea[r][c]

\* The completed solution of a fully clued puzzle was examined (every berry
\* placed, every other cell marked empty) and both versions report it clean.
C29_Witness ==
  /\ out # << >>
  /\ \A r \in Idx, c \in Idx :
        /\ sc.board[r][c] = IF sc.puzzle.solution[r][c] = 1 THEN 1 ELSE -1
        /\ (sc.puzzle.solution[r][c] # 1) => (sc.puzzle.puzzleClues[r][c] # None)
  /\ \A n \in 1..2 : \A r \in Idx, c \in Idx :
        /\ ~out[1].val[n].row[r]
        /\ ~out[1].val[n].clueArea[r][c]


\* C30: the search state of solveCount and solveOneFromClueGrid stays
\* consistent with the placed prefix.  At every entry of backtrack(r) each
\* column counter and each block counter is the number of berries in rows
\* 0..r-1 of boardRows; when solveCount returns all counters are 0; and a
\* partial clue check gives the answer it gives with every row below the
\* last placed row blanked, so a row left by an abandoned branch is not read.
C30_CountersMatchPrefix ==
  (fn \in {"solveCount", "solveOne"}) =>
     /\ (epc = "enter") =>
           /\ \A c \in Idx :
                 colCounts[c] =
                    Cardinality({i \in 0..(Len(iters) - 1) : RowOf(boardRows[i])[c] = 1})
           /\ \A b \in Idx :
                 blockCounts[b] =
                    Cardinality({x \in (0..(Len(iters) - 1)) \X Idx :
                                   /\ RowOf(boardRows[x[1]])[x[2]] = 1
                                   /\ blockId(x[1], x[2]) = b})
     /\ (epc = "ret" /\ fn = "solveCount") =>
           /\ colCounts = ZeroCounts
           /\ blockCounts = ZeroCounts
     /\ did.checked =>
           (checkCluesPartial(clueList, boardRows, TopRow)
              = checkCluesPartial(clueList,
                                  [i \in Idx |-> IF i <= TopRow THEN boardRows[i] ELSE 0],
                                  TopRow))

\* backtrack(r) of solveCount is entered after a partial clue check while
\* row r of boardRows still holds the pattern of an abandoned branch.
C30_Witness ==
  /\ fn = "solveCount"
  /\ epc = "enter"
  /\ Len(iters) \in 1..(N - 1)
  /\ boardRows[Len(iters)] # 0
  /\ did.checked
  /\ clueList # << >>
  /\ \E c \in Idx : colCounts[c] > 0

====
